---- MODULE Spec2Model ----
(***************************************************************************)
(* Model of the exnaton meter-data services.                               *)
(*                                                                         *)
(*   data_loader/main.py   the ingestion process: init_schema, run_sync    *)
(*                         (fetch, transform, watermark filter, upsert),   *)
(*                         the readiness marker and the periodic loop.     *)
(*   backend/main.py       the analytics queries over meter_readings.      *)
(*   backend/energy_pricing.py   the dual-tariff classifier.               *)
(*                                                                         *)
(* A timestamp is a whole number of quarters of an hour since Monday 00:00 *)
(* of week 0; a reading is a whole number of energy units.                 *)
(***************************************************************************)
EXTENDS Integers, Sequences, FiniteSets, TLC

\* ------------------------------------------------------------------------
\* Bounds of the model
\* ------------------------------------------------------------------------
\* largest number of records in one source feed
MaxLen == 2
\* largest number of sync cycles one process starts
MaxCycles == 3
\* largest number of things the environment does to one process: changes the
\* data provider makes to the feeds and outages of the source or the store
MaxEvents == 2

\* ------------------------------------------------------------------------
\* Configuration of the data loader
\* ------------------------------------------------------------------------
\* the measurement types, in the iteration order of the METER_URLS dict
METER_URLS == <<"active", "reactive">>

MeasurementTypes == {METER_URLS[i] : i \in 1..Len(METER_URLS)}

\* meter ids that can appear in the tags of a source record
Muids == {"M1", "M2"}

\* the instants a source record can carry (see RawTimestamp)
Instants == {1, 2}

\* the payloads a source record can carry: the reading value, which also
\* decides whether the record has a quality tag (see RawTags)
Variants == {1, 2}

\* SQL NULL / Python None for a timestamp
None == -1

\* the watermark query of a kind has not run in this cycle
NotQueried == -2

\* ------------------------------------------------------------------------
\* The source feeds (the S3 objects)
\* ------------------------------------------------------------------------
\* the i-th instant a record can carry, as the calendar fields of its
\* ISO-8601 string: 1 -> Monday 10:00, 2 -> Saturday 14:00, 3 -> Thursday
\* 18:00 of the next week, 4 -> Tuesday 22:00 of the week after, and i + 4
\* a quarter of an hour after i (5 -> Monday 10:15)
RawTimestamp(i) ==
    LET q == 40 + 496 * ((i - 1) % 4) + ((i - 1) \div 4)
    IN [day |-> q \div 96, hour |-> (q \div 4) % 24, minute |-> 15 * (q % 4)]

\* the tags of a source record; a provider may omit the quality tag
RawTags(m, v) ==
    IF v % 2 = 1 THEN [muid |-> m, quality |-> "measured"] ELSE [muid |-> m]

\* a source record of meter m at instant i with payload variant v; the
\* field obis stands for the OBIS-code column that carries the reading
RawRecord(m, i, v) ==
    [measurement |-> "energy", timestamp |-> RawTimestamp(i),
     tags |-> RawTags(m, v), obis |-> v]

\* the same record once the provider has dropped the reading column
WithoutReading(r) ==
    [measurement |-> r.measurement, timestamp |-> r.timestamp, tags |-> r.tags]

\* the records a provider appends to a feed: any meter at any instant, as
\* first published (a corrected reading comes later, by a revision)
NewRecords ==
    {RawRecord(m, i, 1) : m \in Muids, i \in Instants}

HasReading(r) == "obis" \in DOMAIN r

\* ------------------------------------------------------------------------
\* Pure functions of data_loader/main.py
\* ------------------------------------------------------------------------
\* pd.to_datetime on the timestamp string of a record: an instant, counted in
\* quarters of an hour (the period of the readings) from a Monday 00:00
to_datetime(ts) == (ts.day * 24 + ts.hour) * 4 + ts.minute \div 15

\* the columns of pd.DataFrame(raw_data["data"]): the union of the keys
Columns(data) == UNION {DOMAIN data[i] : i \in 1..Len(data)}

\* transform_data: ok is FALSE when the list comprehension for obis_col
\* (the columns outside standard_cols) is empty and [0] raises IndexError:
\* no reading column, or no record at all
transform_data(data, measurement_type) ==
    IF Columns(data) \ {"measurement", "timestamp", "tags"} = {}
    THEN [ok |-> FALSE, df |-> <<>>]
    ELSE [ok |-> TRUE,
          df |-> [i \in 1..Len(data) |->
                    [timestamp |-> to_datetime(data[i].timestamp),
                     muid |-> data[i].tags.muid,
                     measurement_type |-> measurement_type,
                     reading |-> data[i].obis,
                     quality |-> IF "quality" \in DOMAIN data[i].tags
                                 THEN data[i].tags.quality
                                 ELSE "unknown"]]]

\* the conflict target of the upsert and the UNIQUE constraint of the table
Key(r) == <<r.muid, r.timestamp, r.measurement_type>>

SetMax(S) == CHOOSE x \in S : \A y \in S : y <= x

\* get_latest_timestamp: SELECT MAX(timestamp) ... WHERE muid AND type
get_latest_timestamp(S, muid, measurement_type) ==
    LET ts == {r.timestamp : r \in {x \in S : x.muid = muid
                                  /\ x.measurement_type = measurement_type}}
    IN IF ts = {} THEN None ELSE SetMax(ts)

\* variants of FilterNew: no watermark filter at all; records at the
\* watermark kept (>= for >)
FilterNew_keepAll(df, latest_ts) == df

FilterNew_inclusive(df, latest_ts) ==
    IF latest_ts = None THEN df
    ELSE SelectSeq(df, LAMBDA r : r.timestamp >= latest_ts)

\* df[df["timestamp"] > latest_ts], applied only when latest_ts is not None
FilterNew(df, latest_ts) ==
    IF latest_ts = None THEN df
    ELSE SelectSeq(df, LAMBDA r : r.timestamp > latest_ts)

\* variants of UpsertRow: a plain INSERT into a table without the UNIQUE
\* constraint; ON CONFLICT DO NOTHING
UpsertRow_insert(S, r) == S \cup {r}

UpsertRow_doNothing(S, r) ==
    IF \E x \in S : Key(x) = Key(r) THEN S ELSE S \cup {r}

\* INSERT ... ON CONFLICT (muid, timestamp, measurement_type) DO UPDATE SET
\* reading = EXCLUDED.reading, quality = EXCLUDED.quality, for one row
UpsertRow(S, r) == {x \in S : Key(x) # Key(r)} \cup {r}

RECURSIVE UpsertRows(_, _)
UpsertRows(S, df) ==
    IF df = <<>> THEN S ELSE UpsertRows(UpsertRow(S, Head(df)), Tail(df))

\* two rows of one batch with the same conflict key
HasDuplicateKey(df) ==
    \E i, j \in 1..Len(df) : i < j /\ Key(df[i]) = Key(df[j])

\* variant of upsert_data: the table is emptied and loaded with the batch
upsert_data_reload(S, df, dbUp, onePage) ==
    IF df = <<>> THEN [ok |-> TRUE, store |-> S, rows |-> 0]
    ELSE IF ~dbUp \/ (onePage /\ HasDuplicateKey(df))
    THEN [ok |-> FALSE, store |-> S, rows |-> 0]
    ELSE [ok |-> TRUE, store |-> UpsertRows({}, df), rows |-> Len(df)]

\* upsert_data: the whole batch is one transaction, committed after the last
\* page of execute_values.  dbUp is FALSE when the store cannot be reached;
\* onePage is TRUE when two rows with the same key fall in one page (one
\* INSERT statement), which PostgreSQL rejects ("ON CONFLICT DO UPDATE
\* command cannot affect row a second time").
upsert_data(S, df, dbUp, onePage) ==
    IF df = <<>> THEN [ok |-> TRUE, store |-> S, rows |-> 0]
    ELSE IF ~dbUp \/ (onePage /\ HasDuplicateKey(df))
    THEN [ok |-> FALSE, store |-> S, rows |-> 0]
    ELSE [ok |-> TRUE, store |-> UpsertRows(S, df), rows |-> Len(df)]

\* what one iteration of the loop of run_sync has left in the cycle's log
NoFetch == [st |-> "none", data |-> <<>>]
NoBatch == [st |-> "none", df |-> <<>>]

\* variant of WatermarkMuid: the muid of the last record of the feed
WatermarkMuid_last(df) == df[Len(df)].muid

\* line 248: muid = df["muid"].iloc[0], the meter whose watermark is queried
WatermarkMuid(df) == df[1].muid

\* variant of MuidCheck: more than one muid in a feed is an error
MuidCheck_strict(df) ==
    IF Cardinality({df[i].muid : i \in 1..Len(df)}) > 1 THEN "raise" ELSE "pass"

\* lines 249-253: df["muid"].nunique() > 1 is logged as a warning
MuidCheck(df) ==
    IF Cardinality({df[i].muid : i \in 1..Len(df)}) > 1 THEN "warn" ELSE "pass"

\* the try block of run_sync for one measurement type from the payload data
\* that fetch_meter_data returned up to the batch handed to upsert_data
\* (lines 239-270): transform, muid check, watermark query on the store S,
\* filter.  fault is "query" when get_latest_timestamp meets an outage.  The
\* batch is "skipped" when nothing is left ('continue'), "pending" when
\* upsert_data is the next call.
TryBody(measurement_type, S, data, fault) ==
    LET t == transform_data(data, measurement_type)
    IN
    IF ~t.ok
    THEN [exc |-> "IndexError", warned |-> FALSE,
          wm |-> NotQueried, batch |-> NoBatch]
    ELSE
    LET check == IF t.df = <<>> THEN "pass" ELSE MuidCheck(t.df)
        warned == check = "warn"
    IN
    IF check = "raise"
    THEN [exc |-> "ValueError", warned |-> FALSE,
          wm |-> NotQueried, batch |-> NoBatch]
    ELSE IF t.df # <<>> /\ fault = "query"
    THEN [exc |-> "DatabaseError", warned |-> warned,
          wm |-> NotQueried, batch |-> NoBatch]
    ELSE
    LET latest_ts == IF t.df = <<>> THEN NotQueried
                     ELSE get_latest_timestamp(S, WatermarkMuid(t.df), measurement_type)
        df == IF t.df = <<>> THEN t.df ELSE FilterNew(t.df, latest_ts)
    IN [exc |-> "none", warned |-> warned, wm |-> latest_ts,
        batch |-> [st |-> IF df = <<>> THEN "skipped" ELSE "pending",
                   df |-> df]]

\* the end of the try block (lines 272-275): upsert_data(df) on the store S.
\* fault is "upsert" when upsert_data cannot reach the store.
TryUpsert(S, df, fault, onePage) ==
    LET u == upsert_data(S, df, fault # "upsert", onePage)
    IN IF ~u.ok
       THEN [exc |-> "DatabaseError", batch |-> [st |-> "failed", df |-> df],
             store |-> S, rows |-> 0]
       ELSE [exc |-> "none", batch |-> [st |-> "upserted", df |-> df],
             store |-> u.store, rows |-> u.rows]

\* variants of Handler: every exception raised again; every exception
\* logged and skipped
Handler_raiseAll(exc) == "raise"

Handler_skipAll(exc) == "continue"

\* the except clauses of run_sync: a requests.RequestException is logged and
\* the loop goes on; any other exception is logged and raised again
Handler(exc) ==
    IF exc = "RequestException" THEN "continue" ELSE "raise"

\* ------------------------------------------------------------------------
\* backend/energy_pricing.py
\* ------------------------------------------------------------------------
\* variant of SWISS_ENERGY_CONFIG: the two rates exchanged
SWISS_ENERGY_CONFIG_ratesExchanged ==
    [high_tariff |-> [name |-> "Hochtarif (HT)", rate |-> 22,
                      schedule |-> [weekdays |-> [start |-> 7, end |-> 20]]],
     low_tariff  |-> [name |-> "Niedertarif (NT)", rate |-> 32]]

\* the entries of SWISS_ENERGY_CONFIG that the backend reads; the rates are
\* the rate_chf_per_kwh values in Rappen (0.32 CHF and 0.22 CHF)
SWISS_ENERGY_CONFIG ==
    [high_tariff |-> [name |-> "Hochtarif (HT)", rate |-> 32,
                      schedule |-> [weekdays |-> [start |-> 7, end |-> 20]]],
     low_tariff  |-> [name |-> "Niedertarif (NT)", rate |-> 22]]

\* variant of get_tariff_for_hour: the end of the peak window included
get_tariff_for_hour_inclusiveEnd(hour, is_weekend) ==
    LET config == SWISS_ENERGY_CONFIG
        ht_start == config.high_tariff.schedule.weekdays.start
        ht_end == config.high_tariff.schedule.weekdays.end
    IN IF is_weekend
       THEN [tariff |-> "low", name |-> config.low_tariff.name,
             rate |-> config.low_tariff.rate]
       ELSE IF ht_start <= hour /\ hour <= ht_end
       THEN [tariff |-> "high", name |-> config.high_tariff.name,
             rate |-> config.high_tariff.rate]
       ELSE [tariff |-> "low", name |-> config.low_tariff.name,
             rate |-> config.low_tariff.rate]

\* get_tariff_for_hour
get_tariff_for_hour(hour, is_weekend) ==
    LET config == SWISS_ENERGY_CONFIG
        ht_start == config.high_tariff.schedule.weekdays.start
        ht_end == config.high_tariff.schedule.weekdays.end
    IN IF is_weekend
       THEN [tariff |-> "low", name |-> config.low_tariff.name,
             rate |-> config.low_tariff.rate]
       ELSE IF ht_start <= hour /\ hour < ht_end
       THEN [tariff |-> "high", name |-> config.high_tariff.name,
             rate |-> config.high_tariff.rate]
       ELSE [tariff |-> "low", name |-> config.low_tariff.name,
             rate |-> config.low_tariff.rate]

\* ------------------------------------------------------------------------
\* backend/main.py: filters
\* ------------------------------------------------------------------------
\* EXTRACT(HOUR FROM timestamp) and EXTRACT(DOW FROM timestamp) (0 = Sunday);
\* instant 0 of the time axis is a Monday 00:00
ExtractHour(ts) == (ts \div 4) % 24

ExtractDow(ts) == ((ts \div 96) + 1) % 7

\* the SQL conditions build_query_filters can emit, and the one each of
\* fetch_heatmap and fetch_cost_breakdown appends
CondStart == "timestamp >= :start"
CondEnd == "timestamp <= :end"
CondMeter == "measurement_type = :meter"
CondWeekday == "EXTRACT(DOW FROM timestamp) BETWEEN 1 AND 5"
CondWeekend == "EXTRACT(DOW FROM timestamp) IN (0, 6)"
CondActive == "measurement_type = 'active'"
CondHeatmapMeter == "measurement_type = :heatmap_meter"

\* the Python test: "measurement_type" in c
MentionsMeasurementType(c) == c \in {CondMeter, CondActive, CondHeatmapMeter}

\* build_query_filters; a date is a day number, None when absent.  params
\* keeps one field per bind parameter, None / "none" when it is not bound:
\* start is 00:00 of start_date, end is the last instant of end_date, which
\* for quarter-hour timestamps is its 23:45
build_query_filters(start_date, end_date, meter, weekday_only, weekend_only) ==
    [conditions |->
        (IF start_date # None THEN <<CondStart>> ELSE <<>>)
        \o (IF end_date # None THEN <<CondEnd>> ELSE <<>>)
        \o (IF meter # "both" THEN <<CondMeter>> ELSE <<>>)
        \o (IF weekday_only THEN <<CondWeekday>>
            ELSE IF weekend_only THEN <<CondWeekend>> ELSE <<>>),
     params |->
        [start |-> IF start_date # None THEN start_date * 96 ELSE None,
         end   |-> IF end_date # None THEN end_date * 96 + 95 ELSE None,
         meter |-> IF meter # "both" THEN meter ELSE "none"]]

\* a row satisfies one SQL condition under the bound parameters
Holds(c, params, r) ==
    CASE c = CondStart -> r.timestamp >= params.start
      [] c = CondEnd -> r.timestamp <= params.end
      [] c = CondMeter -> r.measurement_type = params.meter
      [] c = CondWeekday -> ExtractDow(r.timestamp) \in 1..5
      [] c = CondWeekend -> ExtractDow(r.timestamp) \in {0, 6}
      [] c = CondActive -> r.measurement_type = "active"
      [] c = CondHeatmapMeter -> r.measurement_type = params.heatmap_meter

\* SELECT ... FROM meter_readings WHERE c1 AND c2 AND ...
Where(S, conditions, params) ==
    {r \in S : \A i \in 1..Len(conditions) : Holds(conditions[i], params, r)}

\* the sum of a bag of numbers, times[v] being how many times v occurs
RECURSIVE SumBag(_)
SumBag(times) ==
    IF DOMAIN times = {} THEN 0
    ELSE LET v == CHOOSE x \in DOMAIN times : TRUE
         IN v * times[v] + SumBag([x \in DOMAIN times \ {v} |-> times[x]])

\* SUM(reading) over the rows S
SumReading(S) ==
    SumBag([v \in {r.reading : r \in S} |->
                Cardinality({r \in S : r.reading = v})])

\* ------------------------------------------------------------------------
\* Python floats: IEEE 754 binary64 arithmetic and round(x, ndigits)
\* ------------------------------------------------------------------------
\* A float needs 53 significant bits, more than an integer of the model
\* holds, so its significand is a natural number of any size: the sequence of
\* its digits in base Limb, least significant first, with no leading zero
\* digit; the number 0 is the empty sequence.
Limb == 32768

\* the number of binary digits of a digit in base Limb
LimbBits == 15

RECURSIVE Pow2(_)
Pow2(b) == IF b = 0 THEN 1 ELSE 2 * Pow2(b - 1)

RECURSIVE Pow10(_)
Pow10(b) == IF b = 0 THEN 1 ELSE 10 * Pow10(b - 1)

RECURSIVE BigFromInt(_)
BigFromInt(n) ==
    IF n = 0 THEN <<>> ELSE <<n % Limb>> \o BigFromInt(n \div Limb)

RECURSIVE BigTrim(_)
BigTrim(x) ==
    IF x = <<>> THEN <<>>
    ELSE IF x[Len(x)] = 0 THEN BigTrim(SubSeq(x, 1, Len(x) - 1))
    ELSE x

RECURSIVE AddFrom(_, _, _, _)
AddFrom(x, y, i, carry) ==
    IF i > Len(x) /\ i > Len(y)
    THEN (IF carry = 0 THEN <<>> ELSE <<carry>>)
    ELSE LET xi == IF i <= Len(x) THEN x[i] ELSE 0
             yi == IF i <= Len(y) THEN y[i] ELSE 0
             t == xi + yi + carry
         IN <<t % Limb>> \o AddFrom(x, y, i + 1, t \div Limb)

BigAdd(x, y) == AddFrom(x, y, 1, 0)

RECURSIVE SubFrom(_, _, _, _)
SubFrom(x, y, i, borrow) ==
    IF i > Len(x) THEN <<>>
    ELSE LET yi == IF i <= Len(y) THEN y[i] ELSE 0
             t == x[i] - yi - borrow
         IN IF t < 0 THEN <<t + Limb>> \o SubFrom(x, y, i + 1, 1)
            ELSE <<t>> \o SubFrom(x, y, i + 1, 0)

\* x - y for x >= y
BigSub(x, y) == BigTrim(SubFrom(x, y, 1, 0))

\* -1, 0 or 1 as x is less than, equal to or greater than y: the longer
\* number is the greater and, of two numbers of the same length, the one
\* with the greater digit at the highest place where they differ
BigCmp(x, y) ==
    IF Len(x) < Len(y) THEN -1
    ELSE IF Len(x) > Len(y) THEN 1
    ELSE IF x = y THEN 0
    ELSE LET i == CHOOSE j \in 1..Len(x) :
                     /\ x[j] # y[j]
                     /\ \A k \in (j + 1)..Len(x) : x[k] = y[k]
         IN IF x[i] < y[i] THEN -1 ELSE 1

RECURSIVE MulSmallFrom(_, _, _, _)
MulSmallFrom(x, d, i, carry) ==
    IF i > Len(x) THEN (IF carry = 0 THEN <<>> ELSE <<carry>>)
    ELSE LET t == x[i] * d + carry
         IN <<t % Limb>> \o MulSmallFrom(x, d, i + 1, t \div Limb)

\* x * d for a digit d
BigMulSmall(x, d) == IF d = 0 THEN <<>> ELSE MulSmallFrom(x, d, 1, 0)

\* x * 2^k
BigShl(x, k) ==
    IF x = <<>> THEN <<>>
    ELSE [i \in 1..(k \div LimbBits) |-> 0]
            \o BigMulSmall(x, Pow2(k % LimbBits))

\* x * y: x times the lowest digit of y, plus Limb times x times the rest
RECURSIVE BigMul(_, _)
BigMul(x, y) ==
    IF y = <<>> THEN <<>>
    ELSE BigAdd(BigMulSmall(x, y[1]), BigShl(BigMul(x, Tail(y)), LimbBits))

RECURSIVE DivSmallFrom(_, _, _, _)
DivSmallFrom(x, d, i, rem) ==
    IF i = 0 THEN <<>>
    ELSE LET t == rem * Limb + x[i]
         IN DivSmallFrom(x, d, i - 1, t % d) \o <<t \div d>>

\* floor(x / 2^k)
BigShr(x, k) ==
    IF k \div LimbBits >= Len(x) THEN <<>>
    ELSE LET y == SubSeq(x, (k \div LimbBits) + 1, Len(x))
         IN BigTrim(DivSmallFrom(y, Pow2(k % LimbBits), Len(y), 0))

\* the number of binary digits of x
BigBitLen(x) ==
    IF x = <<>> THEN 0
    ELSE LimbBits * (Len(x) - 1)
            + (CHOOSE n \in 1..LimbBits :
                    Pow2(n - 1) <= x[Len(x)] /\ x[Len(x)] < Pow2(n))

\* the quotient and the remainder of a by b > 0, by long division in base
\* 32: from the quotient and the remainder sub of floor(a / 32) and the last
\* base-32 digit low of a come those of a
RECURSIVE BigDivMod(_, _)
BigDivMod(a, b) ==
    IF BigCmp(a, b) < 0 THEN [q |-> <<>>, r |-> a]
    ELSE CHOOSE res \in
            {LET low == a[1] % 32
                 r2 == BigAdd(BigMulSmall(sub.r, 32),
                              IF low = 0 THEN <<>> ELSE <<low>>)
                 d == CHOOSE c \in 0..31 :
                         /\ BigCmp(BigMulSmall(b, c), r2) <= 0
                         /\ BigCmp(BigMulSmall(b, c + 1), r2) > 0
             IN [q |-> BigAdd(BigMulSmall(sub.q, 32),
                              IF d = 0 THEN <<>> ELSE <<d>>),
                 r |-> BigSub(r2, BigMulSmall(b, d))]
             : sub \in {BigDivMod(BigShr(a, 5), b)}} : TRUE

\* A float x >= 0 is [m, e], standing for m * 2^e, with m of exactly 53 binary
\* digits, or m = 0 for 0.0 (the amounts of the model are far from the
\* subnormal and from the infinite range).  RoundToDouble is the rounding of
\* every float operation: the float nearest to num / den * 2^e0, a tie going
\* to the even significand.
RoundToDouble(num, den, e0) ==
    IF num = <<>> THEN [m |-> <<>>, e |-> 0]
    ELSE LET k == 55 - (BigBitLen(num) - BigBitLen(den))
             N == IF k >= 0 THEN BigShl(num, k) ELSE num
             D == IF k >= 0 THEN den ELSE BigShl(den, -k)
             Rounded(qr) ==
                LET s == BigBitLen(qr.q) - 53
                    m0 == BigShr(qr.q, s)
                    low == BigSub(qr.q, BigShl(m0, s))
                    c == BigCmp(low, BigShl(<<1>>, s - 1))
                    up == c > 0 \/ (c = 0 /\ (qr.r # <<>> \/ m0[1] % 2 = 1))
                    m1 == IF up THEN BigAdd(m0, <<1>>) ELSE m0
                IN IF BigBitLen(m1) = 54
                   THEN [m |-> BigShr(m1, 1), e |-> e0 - k + s + 1]
                   ELSE [m |-> m1, e |-> e0 - k + s]
         IN CHOOSE x \in {Rounded(qr) : qr \in {BigDivMod(N, D)}} : TRUE

\* float(n) of an integer n >= 0, and the float a literal n / 10^digits
\* denotes (0.32 is literal(32, 2))
float(n) == RoundToDouble(BigFromInt(n), <<1>>, 0)

literal(n, digits) == RoundToDouble(BigFromInt(n), BigFromInt(Pow10(digits)), 0)

\* x * y, x / y (y > 0) and x + y on floats
float_mul(x, y) == RoundToDouble(BigMul(x.m, y.m), <<1>>, x.e + y.e)

float_div(x, y) == RoundToDouble(x.m, y.m, x.e - y.e)

float_add(x, y) ==
    IF x.m = <<>> THEN y
    ELSE IF y.m = <<>> THEN x
    ELSE LET e == IF x.e < y.e THEN x.e ELSE y.e
         IN RoundToDouble(BigAdd(BigShl(x.m, x.e - e), BigShl(y.m, y.e - e)),
                          <<1>>, e)

\* Python round(x, ndigits) of a float x >= 0, as the integer number of units
\* of 10^-ndigits: the multiple of 10^-ndigits nearest to the exact value of
\* x, a tie going to the even multiple
round(x, ndigits) ==
    LET P == BigMul(x.m, BigFromInt(Pow10(ndigits)))
        q == IF x.e >= 0 THEN BigShl(P, x.e) ELSE BigShr(P, -x.e)
        low == BigSub(P, BigShl(q, -x.e))
        c == BigCmp(low, BigShl(<<1>>, -x.e - 1))
        up == x.e < 0 /\ (c > 0 \/ (c = 0 /\ q # <<>> /\ q[1] % 2 = 1))
        n == (IF Len(q) >= 1 THEN q[1] ELSE 0)
                + (IF Len(q) >= 2 THEN Limb * q[2] ELSE 0)
                + (IF Len(q) >= 3 THEN Limb * Limb * q[3] ELSE 0)
    IN IF up THEN n + 1 ELSE n

\* round(x, ndigits) for a float x computed by a few float operations from
\* integers, where exact arithmetic would give n / d units of 10^-ndigits
\* (n >= 0, d > 0).  Each operation moves the value by less than one part in
\* 2^52 and n / d, unless it is halfway between two integers, is at least
\* 1 / (2 * d) away from halfway, which is far more: the result is the
\* integer nearest to n / d.  Halfway, the float itself decides, and x is
\* rounded as the code rounds it.
round_of(x, n, d, ndigits) ==
    IF d % 2 = 0 /\ n % d = d \div 2 THEN round(x, ndigits)
    ELSE IF 2 * (n % d) > d THEN (n \div d) + 1
    ELSE n \div d

\* ------------------------------------------------------------------------
\* backend/main.py: fetch_cost_breakdown
\* ------------------------------------------------------------------------
\* variant of cost_conditions: measurement_type = 'active' is not appended
cost_conditions_anyKind(filters) ==
    SelectSeq(filters.conditions, LAMBDA c : ~MentionsMeasurementType(c))

\* lines 484-487: the filter's conditions without any measurement-type
\* condition, plus measurement_type = 'active'
cost_conditions(filters) ==
    SelectSeq(filters.conditions, LAMBDA c : ~MentionsMeasurementType(c))
    \o <<CondActive>>

cost_params(filters) == [filters.params EXCEPT !.meter = "none"]

\* the query of lines 489-498: SUM(reading) per (hour, day_of_week) cell
CostRows(S, filters) ==
    LET sel == Where(S, cost_conditions(filters), cost_params(filters))
    IN {[hour |-> c[1], day_of_week |-> c[2],
         total_kwh |-> SumReading({r \in sel :
                            /\ ExtractHour(r.timestamp) = c[1]
                            /\ ExtractDow(r.timestamp) = c[2]})]
        : c \in {<<ExtractHour(r.timestamp), ExtractDow(r.timestamp)>> : r \in sel}}

\* variant of AddCell: the low-tariff total also takes the high-tariff cells
AddCell_doubleCount(acc, row) ==
    LET is_weekend == row.day_of_week \in {0, 6}
        tariff == get_tariff_for_hour(row.hour, is_weekend)
    IN [high_tariff_kwh |-> IF tariff.tariff = "high"
                            THEN acc.high_tariff_kwh + row.total_kwh
                            ELSE acc.high_tariff_kwh,
        low_tariff_kwh |-> acc.low_tariff_kwh + row.total_kwh]

\* the body of the loop of lines 507-515
AddCell(acc, row) ==
    LET is_weekend == row.day_of_week \in {0, 6}
        tariff == get_tariff_for_hour(row.hour, is_weekend)
    IN IF tariff.tariff = "high"
       THEN [acc EXCEPT !.high_tariff_kwh = @ + row.total_kwh]
       ELSE [acc EXCEPT !.low_tariff_kwh = @ + row.total_kwh]

RECURSIVE Accumulate(_, _)
Accumulate(acc, rows) ==
    IF rows = {} THEN acc
    ELSE LET row == CHOOSE x \in rows : TRUE
         IN Accumulate(AddCell(acc, row), rows \ {row})

\* the value of a float division by zero: Python raises ZeroDivisionError
ZeroDivisionError == -3

\* variant of guarded_ratio: the division is evaluated whatever total_kwh is
guarded_ratio_unguarded(ratio, total_kwh) ==
    IF total_kwh = 0 THEN ZeroDivisionError ELSE ratio

\* the conditional expressions of lines 529, 535 and 537:
\* ratio if total_kwh > 0 else 0, ratio being a division by total_kwh
guarded_ratio(ratio, total_kwh) ==
    IF total_kwh > 0 THEN ratio ELSE 0

\* the float a rate of SWISS_ENERGY_CONFIG is: 0.32 for 32 Rappen
rate_chf_per_kwh(rappen) == literal(rappen, 2)

\* fetch_cost_breakdown.  Energy is in the unit of the stored readings (kWh),
\* money in Rappen (round(.., 2) of an amount in CHF), percent_of_total in
\* tenths of a percent (round(.., 1)), the effective rate in hundredths of a
\* Rappen per kWh (round(.., 4) of a rate in CHF).  The readings being whole
\* numbers of kWh, the energies are exact floats and the amounts of money are
\* within one part in 2^50 of a whole number of Rappen, which round(.., 2)
\* returns; the two percentages and the effective rate are quotients, rounded
\* as floats.  exc names the exception that leaves the function, "none" when
\* it returns the report.
fetch_cost_breakdown(S, filters) ==
    LET ht_rate == SWISS_ENERGY_CONFIG.high_tariff.rate
        lt_rate == SWISS_ENERGY_CONFIG.low_tariff.rate
        acc == Accumulate([high_tariff_kwh |-> 0, low_tariff_kwh |-> 0],
                          CostRows(S, filters))
        high_tariff_kwh == acc.high_tariff_kwh
        low_tariff_kwh == acc.low_tariff_kwh
        total_kwh == high_tariff_kwh + low_tariff_kwh
        high_cost == high_tariff_kwh * ht_rate
        low_cost == low_tariff_kwh * lt_rate
        total_cost == high_cost + low_cost
        f_total_kwh == float_add(float(high_tariff_kwh), float(low_tariff_kwh))
        f_total_cost ==
            float_add(float_mul(float(high_tariff_kwh), rate_chf_per_kwh(ht_rate)),
                      float_mul(float(low_tariff_kwh), rate_chf_per_kwh(lt_rate)))
        percent(kwh) ==
            round_of(float_mul(float_div(float(kwh), f_total_kwh), float(100)),
                     kwh * 1000, total_kwh, 1)
        high_percent == guarded_ratio(percent(high_tariff_kwh), total_kwh)
        low_percent == guarded_ratio(percent(low_tariff_kwh), total_kwh)
        effective_rate ==
            guarded_ratio(round_of(float_div(f_total_cost, f_total_kwh),
                                   total_cost * 100, total_kwh, 4),
                          total_kwh)
    IN IF ZeroDivisionError \in {high_percent, low_percent, effective_rate}
       THEN [exc |-> "ZeroDivisionError"]
       ELSE
       [exc |-> "none",
        total_kwh |-> total_kwh,
        total_cost |-> total_cost,
        high_tariff |-> [kwh |-> high_tariff_kwh, cost |-> high_cost,
                         rate |-> ht_rate, percent_of_total |-> high_percent],
        low_tariff |-> [kwh |-> low_tariff_kwh, cost |-> low_cost,
                        rate |-> lt_rate, percent_of_total |-> low_percent],
        effective_rate |-> effective_rate,
        comparison |-> [all_high_tariff_cost |-> total_kwh * ht_rate,
                        all_low_tariff_cost |-> total_kwh * lt_rate,
                        potential_savings |-> high_tariff_kwh * (ht_rate - lt_rate)]]

\* ------------------------------------------------------------------------
\* backend/main.py: fetch_heatmap
\* ------------------------------------------------------------------------
day_names == <<"Sunday", "Monday", "Tuesday", "Wednesday", "Thursday",
               "Friday", "Saturday">>

\* lines 451-453: the filter's conditions without any measurement-type
\* condition, plus measurement_type = :heatmap_meter
heatmap_conditions(filters) ==
    SelectSeq(filters.conditions, LAMBDA c : ~MentionsMeasurementType(c))
    \o <<CondHeatmapMeter>>

\* lines 447 and 465: the filter's parameters without meter, plus heatmap_meter
heatmap_params(filters, meter_type) ==
    [start |-> filters.params.start, end |-> filters.params.end,
     meter |-> "none", heatmap_meter |-> meter_type]

\* the query of lines 455-465: AVG(reading) per (hour, day_of_week) cell, as
\* the sum and the number of the readings of the cell
HeatmapRows(S, filters, meter_type) ==
    LET sel == Where(S, heatmap_conditions(filters),
                     heatmap_params(filters, meter_type))
        cell(c) == {r \in sel : /\ ExtractHour(r.timestamp) = c[1]
                                /\ ExtractDow(r.timestamp) = c[2]}
    IN {[hour |-> c[1], day_of_week |-> c[2],
         sum |-> SumReading(cell(c)), count |-> Cardinality(cell(c))]
        : c \in {<<ExtractHour(r.timestamp), ExtractDow(r.timestamp)>> : r \in sel}}

\* variant of zero_matrix: the cells start as None
zero_matrix_none == [h \in 1..24 |-> [d \in 1..7 |-> None]]

\* line 468: [[0.0 for _ in range(7)] for _ in range(24)]; row h of the
\* Python list is element h + 1 of the sequence, and so for the cells
zero_matrix == [h \in 1..24 |-> [d \in 1..7 |-> 0]]

\* lines 469-470: matrix[hour][day_of_week] = round(avg_reading, 6), in
\* millionths of a kWh; AVG(reading) of a double precision column is the
\* float quotient of the sum by the count
RECURSIVE FillMatrix(_, _)
FillMatrix(matrix, rows) ==
    IF rows = {} THEN matrix
    ELSE LET row == CHOOSE x \in rows : TRUE
         IN FillMatrix(
              [matrix EXCEPT ![row.hour + 1][row.day_of_week + 1] =
                  round_of(float_div(float(row.sum), float(row.count)),
                           row.sum * 1000000, row.count, 6)],
              rows \ {row})

\* line 449: the meter types the loop of fetch_heatmap goes through, in order
heatmap_meter_types == <<"active", "reactive">>

\* one iteration of the loop of fetch_heatmap (lines 449-476), its awaited
\* query reading the table S: the value of heatmaps[meter_type]
heatmap_for_meter(S, filters, meter_type) ==
    [hours |-> [h \in 1..24 |-> h - 1],
     days |-> day_names,
     values |-> FillMatrix(zero_matrix, HeatmapRows(S, filters, meter_type))]

\* ------------------------------------------------------------------------
\* backend/main.py: fetch_readings_paginated
\* ------------------------------------------------------------------------
Aggregation == {"raw", "hourly", "daily", "weekly"}

\* line 285: the bucket width of an aggregation
interval(aggregation) ==
    CASE aggregation = "hourly" -> "1 hour"
      [] aggregation = "daily" -> "1 day"
      [] aggregation = "weekly" -> "1 week"

\* variant of time_bucket: seven-day buckets counted from a Thursday 00:00
\* (weeks of the Unix epoch) instead of from a Monday
time_bucket_epochWeeks(bucket_width, ts) ==
    CASE bucket_width = "1 hour" -> (ts \div 4) * 4
      [] bucket_width = "1 day" -> (ts \div 96) * 96
      [] bucket_width = "1 week" -> ((ts + 384) \div 672) * 672 - 384

\* time_bucket(bucket_width, timestamp): the start of the bucket the instant
\* falls in; hours start on the hour, days at 00:00, weeks on Monday 00:00
time_bucket(bucket_width, ts) ==
    CASE bucket_width = "1 hour" -> (ts \div 4) * 4
      [] bucket_width = "1 day" -> (ts \div 96) * 96
      [] bucket_width = "1 week" -> (ts \div 672) * 672

\* datetime.isoformat(): the calendar fields of an instant
isoformat(ts) ==
    [day |-> ts \div 96, hour |-> (ts \div 4) % 24, minute |-> 15 * (ts % 4)]

SetMin(S) == CHOOSE x \in S : \A y \in S : x <= y

\* ORDER BY timestamp, measurement_type: a sorts strictly before b
OrderedBefore(a, b) ==
    \/ a.timestamp < b.timestamp
    \/ a.timestamp = b.timestamp /\ a.measurement_type = "active"
                                 /\ b.measurement_type = "reactive"

\* a function with its values computed once and kept
Tabulate(f) == f @@ <<>>

\* the sequences that list every element of a set once
RECURSIVE Arrangements(_)
Arrangements(G) ==
    IF G = {} THEN {<<>>}
    ELSE UNION {{<<r>> \o rest : rest \in Arrangements(G \ {r})} : r \in G}

\* the ways to order the rows inside each group of a set of groups
RECURSIVE TieBreaks(_)
TieBreaks(T) ==
    IF T = {} THEN {<<>>}
    ELSE LET g == CHOOSE x \in T : TRUE
         IN {(g :> a) @@ f : a \in Arrangements(g), f \in TieBreaks(T \ {g})}

\* the orders in which a query with ORDER BY timestamp, measurement_type can
\* return the rows R: rows with the same timestamp and measurement_type come
\* in an order that the database is free to choose at each execution.  A row
\* comes after the rows that sort strictly before it, so the rows that have
\* i rows before them fill the places i + 1, i + 2, ... in any order.
OrderedResults(R) ==
    LET n == Cardinality(R)
        before == Tabulate([r \in R |->
                      Cardinality({y \in R : OrderedBefore(y, r)})])
        peers == Tabulate([i \in 0..(n - 1) |-> {r \in R : before[r] = i}])
        tied == {peers[i] : i \in {j \in 0..(n - 1) : Cardinality(peers[j]) > 1}}
        place(i) == CHOOSE t \in 1..i : /\ peers[i - t] # {}
                                        /\ t <= Cardinality(peers[i - t])
    IN {[i \in 1..n |->
            LET t == place(i)
                g == peers[i - t]
            IN IF Cardinality(g) = 1 THEN CHOOSE r \in g : TRUE ELSE tiebreak[g][t]]
        : tiebreak \in TieBreaks(tied)}

\* LIMIT :limit OFFSET :offset
LimitOffset(rows, limit, offset) ==
    IF offset >= Len(rows) THEN <<>>
    ELSE SubSeq(rows, offset + 1,
                IF offset + limit < Len(rows) THEN offset + limit ELSE Len(rows))

\* lines 273-283: the dict of a row in raw mode
RawDict(row) ==
    [timestamp |-> isoformat(row.timestamp),
     measurement_type |-> row.measurement_type,
     reading |-> row.reading,
     quality |-> row.quality,
     hour |-> ExtractHour(row.timestamp),
     day_of_week |-> ExtractDow(row.timestamp)]

\* the (bucket, measurement_type) group of a row
GroupOf(bucket_width, r) ==
    <<time_bucket(bucket_width, r.timestamp), r.measurement_type>>

\* the row of the aggregation query for the group g, whose rows are members;
\* AVG(reading) of the double precision column is the float quotient of the
\* sum by the count
BucketRow(g, members) ==
    LET readings == {r.reading : r \in members}
    IN [timestamp |-> g[1],
        measurement_type |-> g[2],
        reading |-> SumReading(members),
        count |-> Cardinality(members),
        avg_reading |-> [sum |-> SumReading(members),
                         count |-> Cardinality(members)],
        min_reading |-> SetMin(readings),
        max_reading |-> SetMax(readings)]

\* lines 297-311: the groups of the aggregation query
BucketRows(S, filters, bucket_width) ==
    LET sel == Where(S, filters.conditions, filters.params)
        group == Tabulate([r \in sel |-> GroupOf(bucket_width, r)])
    IN {BucketRow(g, {r \in sel : group[r] = g}) : g \in {group[r] : r \in sel}}

\* lines 313-324: the dict of a group; avg_reading becomes the float
BucketDict(row) ==
    [row EXCEPT !.timestamp = isoformat(@),
                !.avg_reading = float_div(float(@.sum), float(@.count))]

\* the COUNT query of fetch_readings_paginated (lines 254-256 in raw mode,
\* 287-294 in a bucketed mode) on the table S: total_count
count_query(S, filters, aggregation) ==
    LET sel == Where(S, filters.conditions, filters.params)
    IN IF aggregation = "raw"
       THEN Cardinality(sel)
       ELSE Cardinality({GroupOf(interval(aggregation), r) : r \in sel})

\* the data query of fetch_readings_paginated (lines 258-283 in raw mode,
\* 296-324 in a bucketed mode) on the table S: the lists data it can give
data_query(S, filters, aggregation, page, per_page) ==
    LET offset == (page - 1) * per_page
    IN IF aggregation = "raw"
       THEN {LET rows == LimitOffset(o, per_page, offset)
             IN [i \in 1..Len(rows) |-> RawDict(rows[i])]
             : o \in OrderedResults(Where(S, filters.conditions, filters.params))}
       ELSE {LET rows == LimitOffset(o, per_page, offset)
             IN [i \in 1..Len(rows) |-> BucketDict(rows[i])]
             : o \in OrderedResults(BucketRows(S, filters, interval(aggregation)))}

\* fetch_readings_paginated: the (data, total_count) pairs the call can
\* return, its COUNT query reading the table counted and its data query,
\* awaited after it, the table S
fetch_readings_paginated(counted, S, filters, aggregation, page, per_page) ==
    {[data |-> data, total_count |-> count_query(counted, filters, aggregation)]
        : data \in data_query(S, filters, aggregation, page, per_page)}

\* ------------------------------------------------------------------------
\* State
\* ------------------------------------------------------------------------
VARIABLES
    pc,            \* where main() is: "init_schema", "initial_sync", "run_sync",
                   \* "touch", "schedule", "loop", or "crashed" (exception left main)
    kindIdx,       \* index in METER_URLS of the next iteration of run_sync's loop
    inflight,      \* number of run_sync calls that have started and not ended
    registered,    \* schedule.every(15).minutes.do(run_sync) has been called
    due,           \* the job's next_run has passed: run_pending will run it
    missed,        \* a 15-minute boundary passed while a cycle was running
    cycles,        \* number of run_sync calls started by this process
    markerWrites,  \* number of HEALTH_MARKER.touch() calls of this process
    faults,        \* outages met so far
    changes,       \* changes the provider has made to the feeds so far
    store,         \* the rows of the table meter_readings
    source,        \* the content of the S3 object of each measurement type
    cyc,           \* log of the current (or last) run_sync call
    prev,          \* log of the run_sync call before it, and the store it left
    request,       \* the query parameters of the last GET /meter_readings
    response       \* the sections the backend computed for that request

vars == <<pc, kindIdx, inflight, registered, due, missed, cycles, markerWrites,
          faults, changes, store, source, cyc, prev, request, response>>

\* the state of the loader process, and the state of the backend
loaderVars == <<pc, kindIdx, inflight, registered, due, missed, cycles,
                markerWrites, faults, changes, source, cyc, prev>>

backendVars == <<request, response>>

NoRequest ==
    [op |-> "none", start_date |-> None, end_date |-> None, meter |-> "both",
     weekday_only |-> FALSE, weekend_only |-> FALSE]

NoResponse == [op |-> "none"]

FreshLog(outcome) ==
    [fetched |-> [k \in MeasurementTypes |-> NoFetch],
     wm      |-> [k \in MeasurementTypes |-> NotQueried],
     batch   |-> [k \in MeasurementTypes |-> NoBatch],
     exc     |-> [k \in MeasurementTypes |-> "none"],
     warned  |-> [k \in MeasurementTypes |-> FALSE],
     rows    |-> 0,
     outcome |-> outcome]

\* the process starts with an empty table and each feed holding the reading
\* of meter M1 at one instant
Init ==
    /\ pc = "init_schema"
    /\ kindIdx = 0
    /\ inflight = 0
    /\ registered = FALSE
    /\ due = FALSE
    /\ missed = FALSE
    /\ cycles = 0
    /\ markerWrites = 0
    /\ faults = 0
    /\ changes = 0
    /\ store = {}
    /\ \E i \in Instants : source = [k \in MeasurementTypes |-> <<RawRecord("M1", i, 1)>>]
    /\ cyc = FreshLog("none")
    /\ prev = [log |-> FreshLog("none"), store |-> {}]
    /\ request = NoRequest
    /\ response = NoResponse

\* ------------------------------------------------------------------------
\* main()
\* ------------------------------------------------------------------------
\* init_schema(): CREATE TABLE IF NOT EXISTS leaves the rows alone
InitSchema ==
    /\ UNCHANGED backendVars
    /\ pc = "init_schema"
    /\ pc' = "initial_sync"
    /\ UNCHANGED <<kindIdx, inflight, registered, due, missed, cycles,
                   markerWrites, faults, changes, store, source, cyc, prev>>

\* init_schema() cannot reach the store: the exception leaves main()
InitSchemaFails ==
    /\ UNCHANGED backendVars
    /\ pc = "init_schema"
    /\ faults + changes < MaxEvents
    /\ faults' = faults + 1
    /\ pc' = "crashed"
    /\ UNCHANGED <<kindIdx, inflight, registered, due, missed, cycles,
                   markerWrites, changes, store, source, cyc, prev>>

\* entry of run_sync()
BeginCycle ==
    /\ inflight' = inflight + 1
    /\ cycles' = cycles + 1
    /\ kindIdx' = 1
    /\ prev' = [log |-> cyc, store |-> store]
    /\ cyc' = FreshLog("running")

\* main() line 295: the eager first cycle
RunInitialSync ==
    /\ UNCHANGED backendVars
    /\ pc = "initial_sync"
    /\ pc' = "run_sync"
    /\ BeginCycle
    /\ UNCHANGED <<registered, due, missed, markerWrites, faults, changes,
                   store, source>>

\* variant of PcAfterReturn: the marker is touched after every cycle
PcAfterReturn_touchAlways(n) == "touch"

\* where main() goes on when a run_sync call returns: the first call was
\* made by main() itself, the later ones by schedule.run_pending()
PcAfterReturn(n) == IF n = 1 THEN "touch" ELSE "loop"

\* where main() goes on when a run_sync call raises: neither main() nor
\* schedule.run_pending() catches, so the exception ends the process
PcAfterRaise(n) == "crashed"

\* HEALTH_MARKER.touch()
TouchMarker ==
    /\ UNCHANGED backendVars
    /\ pc = "touch"
    /\ markerWrites' = markerWrites + 1
    /\ pc' = "schedule"
    /\ UNCHANGED <<kindIdx, inflight, registered, due, missed, cycles,
                   faults, changes, store, source, cyc, prev>>

\* schedule.every(15).minutes.do(run_sync)
ScheduleJob ==
    /\ UNCHANGED backendVars
    /\ pc = "schedule"
    /\ registered' = TRUE
    /\ pc' = "loop"
    /\ UNCHANGED <<kindIdx, inflight, due, missed, cycles, markerWrites,
                   faults, changes, store, source, cyc, prev>>

\* fifteen minutes pass: the job becomes due, or, while a cycle is still
\* running, the boundary passes unserved
Tick ==
    /\ UNCHANGED backendVars
    /\ registered
    /\ pc # "crashed"
    /\ inflight = 0 => cycles < MaxCycles
    /\ IF inflight = 0
       THEN ~due /\ due' = TRUE /\ UNCHANGED missed
       ELSE ~missed /\ missed' = TRUE /\ UNCHANGED due
    /\ UNCHANGED <<pc, kindIdx, inflight, registered, cycles, markerWrites,
                   faults, changes, store, source, cyc, prev>>

\* variant of CanRunPending: the job is run from a scheduler thread as soon
\* as it is due, whether or not a run_sync call is still in progress
CanRunPending_threaded == due

\* schedule.run_pending() runs the job only from the while loop of main(),
\* which is reached again only when the previous call has returned
CanRunPending == pc = "loop" /\ due

\* while True: schedule.run_pending() with a due job
RunPending ==
    /\ UNCHANGED backendVars
    /\ CanRunPending
    /\ cycles < MaxCycles
    /\ pc' = "run_sync"
    /\ BeginCycle
    /\ UNCHANGED <<registered, due, missed, markerWrites, faults, changes,
                   store, source>>

\* ------------------------------------------------------------------------
\* run_sync(): one iteration of "for measurement_type, url in METER_URLS"
\* ------------------------------------------------------------------------
\* An iteration makes three calls that wait for another service:
\* requests.get (fetch_meter_data), the query of get_latest_timestamp, and
\* upsert_data.  Each is a step of its own, and the provider can republish a
\* feed between any two of them: the iteration goes on with the payload its
\* GET returned.
\*
\* the call the iteration for METER_URLS[kindIdx] makes next: "fetch" before
\* the GET, "query" once the payload is there, "upsert" once the batch is
\* filtered; "none" outside the loop
Stage ==
    IF ~(pc = "run_sync" /\ kindIdx \in 1..Len(METER_URLS)) THEN "none"
    ELSE IF cyc.fetched[METER_URLS[kindIdx]].st = "none" THEN "fetch"
    ELSE IF cyc.batch[METER_URLS[kindIdx]].st = "pending" THEN "upsert"
    ELSE "query"

\* the iteration for METER_URLS[kindIdx] ends with res, which names what it
\* adds to the log of the cycle (the rest of the log stays) and the store it
\* leaves: record it, apply the except clauses, and either go on with the
\* next type, return to the caller after the last type, or let the exception
\* leave run_sync
Iterate(res) ==
    LET k == METER_URLS[kindIdx]
        end == res @@ [fetched |-> cyc.fetched[k], wm |-> cyc.wm[k],
                       warned |-> cyc.warned[k], store |-> store, rows |-> 0]
        raised == end.exc # "none" /\ Handler(end.exc) = "raise"
        last == kindIdx = Len(METER_URLS)
        outcome == IF raised THEN "raised"
                   ELSE IF last THEN "returned" ELSE "running"
    IN
    /\ store' = end.store
    /\ cyc' = [cyc EXCEPT !.fetched[k] = end.fetched,
                          !.wm[k] = end.wm,
                          !.batch[k] = end.batch,
                          !.exc[k] = end.exc,
                          !.warned[k] = end.warned,
                          !.rows = @ + end.rows,
                          !.outcome = outcome]
    /\ kindIdx' = IF raised THEN kindIdx ELSE kindIdx + 1
    /\ inflight' = IF outcome = "running" THEN inflight ELSE inflight - 1
    /\ pc' = IF raised THEN PcAfterRaise(cycles)
             ELSE IF last THEN PcAfterReturn(cycles) ELSE pc
    \* Job.run(): after job_func() returns, next_run is set 15 minutes ahead
    /\ due' = IF outcome = "returned" /\ cycles > 1 THEN FALSE ELSE due
    /\ missed' = IF outcome = "running" THEN missed ELSE FALSE
    /\ UNCHANGED <<registered, cycles, markerWrites, changes, source, prev>>
    /\ UNCHANGED backendVars

\* line 237: requests.get returns the feed as the provider publishes it at
\* that moment
Fetch ==
    /\ Stage = "fetch"
    /\ cyc' = [cyc EXCEPT !.fetched[METER_URLS[kindIdx]] =
                    [st |-> "ok", data |-> source[METER_URLS[kindIdx]]]]
    /\ UNCHANGED <<pc, kindIdx, inflight, registered, due, missed, cycles,
                   markerWrites, faults, changes, store, source, prev>>
    /\ UNCHANGED backendVars

\* requests.get times out, cannot connect, or the response is not 2xx
FetchFails ==
    /\ Stage = "fetch"
    /\ faults + changes < MaxEvents
    /\ faults' = faults + 1
    /\ Iterate([exc |-> "RequestException", batch |-> NoBatch,
                fetched |-> [st |-> "failed", data |-> <<>>]])

\* the processing of the fetched payload raises before the store is queried:
\* transform_data finds no reading column or no record
TransformFails ==
    /\ Stage = "query"
    /\ \E res \in {TryBody(METER_URLS[kindIdx], store,
                            cyc.fetched[METER_URLS[kindIdx]].data, "none")} :
        /\ res.exc # "none"
        /\ Iterate(res)
    /\ UNCHANGED faults

\* get_latest_timestamp cannot reach the store
QueryFails ==
    /\ Stage = "query"
    /\ faults + changes < MaxEvents
    /\ faults' = faults + 1
    /\ \E res \in {TryBody(METER_URLS[kindIdx], store,
                            cyc.fetched[METER_URLS[kindIdx]].data, "query")} :
        /\ res.exc = "DatabaseError"
        /\ Iterate(res)

\* every record is at or below the watermark: "continue" before the upsert
SkipUpsert ==
    /\ Stage = "query"
    /\ \E res \in {TryBody(METER_URLS[kindIdx], store,
                            cyc.fetched[METER_URLS[kindIdx]].data, "none")} :
        /\ res.exc = "none"
        /\ res.batch.st = "skipped"
        /\ Iterate(res)
    /\ UNCHANGED faults

\* get_latest_timestamp returns and records are left above the watermark:
\* the iteration goes on to upsert_data with them
QueryWatermark ==
    /\ Stage = "query"
    /\ \E res \in {TryBody(METER_URLS[kindIdx], store,
                            cyc.fetched[METER_URLS[kindIdx]].data, "none")} :
        /\ res.exc = "none"
        /\ res.batch.st = "pending"
        /\ cyc' = [cyc EXCEPT !.wm[METER_URLS[kindIdx]] = res.wm,
                              !.warned[METER_URLS[kindIdx]] = res.warned,
                              !.batch[METER_URLS[kindIdx]] = res.batch]
    /\ UNCHANGED <<pc, kindIdx, inflight, registered, due, missed, cycles,
                   markerWrites, faults, changes, store, source, prev>>
    /\ UNCHANGED backendVars

\* the filtered batch is upserted and committed
Upsert ==
    /\ Stage = "upsert"
    /\ \E res \in {TryUpsert(store, cyc.batch[METER_URLS[kindIdx]].df,
                              "none", FALSE)} :
        /\ res.exc = "none"
        /\ Iterate(res)
    /\ UNCHANGED faults

\* upsert_data cannot reach the store
UpsertFails ==
    /\ Stage = "upsert"
    /\ faults + changes < MaxEvents
    /\ faults' = faults + 1
    /\ Iterate(TryUpsert(store, cyc.batch[METER_URLS[kindIdx]].df,
                         "upsert", FALSE))

\* the batch holds one key twice in one INSERT statement: the store rejects it
UpsertRejected ==
    /\ Stage = "upsert"
    /\ \E res \in {TryUpsert(store, cyc.batch[METER_URLS[kindIdx]].df,
                              "none", TRUE)} :
        /\ res.exc # "none"
        /\ Iterate(res)
    /\ UNCHANGED faults

\* ------------------------------------------------------------------------
\* The data provider
\* ------------------------------------------------------------------------
\* the provider republishes a feed at any moment, whatever the loader is
\* doing: before it starts, between two cycles, between two calls of an
\* iteration or after it has ended
Changing ==
    /\ UNCHANGED backendVars
    /\ faults + changes < MaxEvents
    /\ changes' = changes + 1
    /\ UNCHANGED <<pc, kindIdx, inflight, registered, due, missed, cycles,
                   markerWrites, faults, store, cyc, prev>>

\* a record is added at the end of a feed
SourceAppend ==
    /\ Changing
    /\ \E k \in MeasurementTypes, r \in NewRecords :
        /\ Len(source[k]) < MaxLen
        /\ \A i \in 1..Len(source[k]) : HasReading(source[k][i])
        /\ source' = [source EXCEPT ![k] = Append(@, r)]

\* the reading and the quality tag of a published record are corrected
SourceRevise ==
    /\ Changing
    /\ \E k \in MeasurementTypes :
       \E i \in 1..Len(source[k]), v \in Variants :
        /\ HasReading(source[k][i])
        /\ source[k][i].obis # v
        /\ source' = [source EXCEPT ![k][i] =
                        [@ EXCEPT !.obis = v,
                                  !.tags = RawTags(@.muid, v)]]

\* the provider publishes a feed without the reading column
SourceDropsReading ==
    /\ Changing
    /\ \E k \in MeasurementTypes :
        /\ source[k] # <<>>
        /\ \A i \in 1..Len(source[k]) : HasReading(source[k][i])
        /\ source' = [source EXCEPT ![k] =
                        [i \in 1..Len(@) |-> WithoutReading(@[i])]]

\* the provider publishes a feed with no record
SourceEmptied ==
    /\ Changing
    /\ \E k \in MeasurementTypes :
        /\ source[k] # <<>>
        /\ source' = [source EXCEPT ![k] = <<>>]

\* ------------------------------------------------------------------------
\* Specification of the ingestion process
\* ------------------------------------------------------------------------
Next ==
    \/ InitSchema
    \/ InitSchemaFails
    \/ RunInitialSync
    \/ TouchMarker
    \/ ScheduleJob
    \/ Tick
    \/ RunPending
    \/ Fetch
    \/ FetchFails
    \/ TransformFails
    \/ QueryFails
    \/ SkipUpsert
    \/ QueryWatermark
    \/ Upsert
    \/ UpsertFails
    \/ UpsertRejected
    \/ SourceAppend
    \/ SourceRevise
    \/ SourceDropsReading
    \/ SourceEmptied

Spec == Init /\ [][Next]_vars

\* ------------------------------------------------------------------------
\* Specification of the backend over a growing table
\* ------------------------------------------------------------------------
\* largest number of rows in the table while queries are served
MaxRows == 3
\* largest number of rows in one batch the loader commits
MaxBatch == 2

\* the instants of the stored readings: Monday 10:00, Saturday 14:00 and
\* Tuesday 22:00 two weeks later
QueryInstants == {1, 2, 4}

\* the readings a stored row can carry, 0 kWh included
QueryVariants == {0, 1, 2}

\* the meters and instants of the stored rows: meter M1 at every instant and
\* a second meter M2 that reports at the Monday instant
QueryKeys == {<<"M1", i>> : i \in QueryInstants} \cup {<<"M2", 1>>}

\* the dates a request can name: none, that Monday, that Saturday
QueryDates == {None, 0, 5}

MeterType == {"active", "reactive", "both"}

\* the rows the loader can write
LoaderRows ==
    {transform_data(<<RawRecord(q[1], q[2], v)>>, k).df[1] :
        q \in QueryKeys, v \in QueryVariants, k \in MeasurementTypes}

\* the loader as main() has it once it waits in its scheduling loop after
\* an initial sync that found the source unreachable for both feeds: each
\* iteration logged the RequestException and went on (lines 277-278), no
\* row was written, the marker is touched and the job registered
LoaderAtRest ==
    /\ pc = "loop"
    /\ kindIdx = Len(METER_URLS) + 1
    /\ inflight = 0
    /\ registered = TRUE
    /\ due = FALSE
    /\ missed = FALSE
    /\ cycles = 1
    /\ markerWrites = 1
    /\ faults = Len(METER_URLS)
    /\ changes = 0
    /\ source = [k \in MeasurementTypes |-> <<RawRecord("M1", 1, 1)>>]
    /\ cyc = [FreshLog("returned") EXCEPT
                !.fetched = [k \in MeasurementTypes |->
                                [st |-> "failed", data |-> <<>>]],
                !.exc = [k \in MeasurementTypes |-> "RequestException"]]
    /\ prev = [log |-> FreshLog("none"), store |-> {}]

InitQ ==
    /\ LoaderAtRest
    /\ store = {}
    /\ request = NoRequest
    /\ response = NoResponse

\* fetch_cost_breakdown runs one query, so its report is a function of the
\* request and of the table as that query finds it: a behaviour lets the
\* loader fill the table and then serves one request.

\* a later cycle of the loader runs upsert_data on a batch: up to MaxBatch
\* rows of one feed, taken from the set rows, a row or a key more than once
\* included.  The batch is one INSERT statement and one transaction: a row
\* whose key is stored replaces the reading and the quality of the stored
\* row, the others are added, and a batch that names a key twice is
\* rejected as a whole.  None of this depends on the order of the rows, so
\* a batch lists them by instant and meter.  The table is followed while it
\* holds at most max rows.  The backend reads the table only: the log the
\* loader keeps of that cycle is not followed here.
Commit(rows, max) ==
    /\ \E k \in MeasurementTypes, n \in 1..MaxBatch :
       \E df \in [1..n -> {r \in rows : r.measurement_type = k}] :
        /\ \A i \in 1..(n - 1) :
            \/ df[i].timestamp < df[i + 1].timestamp
            \/ /\ df[i].timestamp = df[i + 1].timestamp
               /\ df[i].muid = (CHOOSE m \in {df[i].muid, df[i + 1].muid} : TRUE)
        /\ \E u \in {upsert_data(store, df, TRUE, TRUE)} :
            /\ Cardinality(u.store) <= max
            /\ store' = u.store
    /\ UNCHANGED backendVars
    /\ UNCHANGED loaderVars

\* the loader commits a batch before the query of the request runs
LoaderCommits ==
    /\ request.op = "none"
    /\ Commit(LoaderRows, MaxRows)

\* GET /meter_readings?include=cost: the cost_breakdown section
GetCostBreakdown ==
    /\ request.op = "none"
    /\ \E start_date \in QueryDates, end_date \in QueryDates, meter \in MeterType,
          weekday_only \in BOOLEAN, weekend_only \in BOOLEAN :
        /\ request' = [op |-> "cost", start_date |-> start_date,
                       end_date |-> end_date, meter |-> meter,
                       weekday_only |-> weekday_only,
                       weekend_only |-> weekend_only]
        /\ response' =
            [op |-> "cost",
             cost_breakdown |-> fetch_cost_breakdown(store,
                build_query_filters(start_date, end_date, meter,
                                    weekday_only, weekend_only))]
    /\ UNCHANGED store
    /\ UNCHANGED loaderVars

NextQ ==
    \/ LoaderCommits
    \/ GetCostBreakdown

SpecQ == InitQ /\ [][NextQ]_vars

\* ------------------------------------------------------------------------
\* Specification of the heatmap served while the loader writes
\* ------------------------------------------------------------------------
\* largest number of rows in the table while a heatmap is served
MaxCellRows == 3

\* the meters and instants of the rows: three readings that fall in the cell
\* of Monday 10h (two meters at 10:00, one of them again at 10:15) and one
\* in the cell of Saturday 14h
CellKeys == {<<"M1", 1>>, <<"M2", 1>>, <<"M1", 5>>, <<"M1", 2>>}

\* the rows the loader can write, of either kind: meter M1 reads 1 kWh on
\* the hour and 2 kWh at 10:15, meter M2 reads 2 kWh
CellRows ==
    {transform_data(<<RawRecord(q[1], q[2],
                                IF q = <<"M1", 1>> THEN 1 ELSE 2)>>, k).df[1] :
        q \in CellKeys, k \in MeasurementTypes}

\* the windows of a heatmap request: open, from that Saturday on, up to that
\* Monday, and the empty one from Saturday to Monday
WindowStarts == {None, 5}

WindowEnds == {None, 0}

InitH ==
    /\ LoaderAtRest
    /\ store = {}
    /\ request = NoRequest
    /\ response = NoResponse

\* fetch_heatmap has queries left to run
HeatmapPending == request.op = "heatmap" /\ response.pending # <<>>

\* the loader commits a batch, before the request or between two of its
\* queries
LoaderCommitsCell ==
    /\ request.op = "none" \/ HeatmapPending
    /\ Commit(CellRows, MaxCellRows)

\* GET /meter_readings?include=heatmap: the request reaches fetch_heatmap,
\* which has run no query yet.  In the response, pending lists the meter
\* types whose iteration is still to run, heatmap is the dict heatmaps as
\* filled so far and read keeps, for each meter type, the table as its query
\* found it.
GetHeatmap ==
    /\ request.op = "none"
    /\ \E start_date \in WindowStarts, end_date \in WindowEnds, meter \in MeterType,
          weekday_only \in BOOLEAN, weekend_only \in BOOLEAN :
        request' = [op |-> "heatmap", start_date |-> start_date,
                    end_date |-> end_date, meter |-> meter,
                    weekday_only |-> weekday_only,
                    weekend_only |-> weekend_only]
    /\ response' = [op |-> "heatmap", pending |-> heatmap_meter_types,
                    heatmap |-> <<>>, read |-> <<>>]
    /\ UNCHANGED store
    /\ UNCHANGED loaderVars

\* one iteration of the loop of fetch_heatmap: the awaited query of the next
\* meter type reads the table as it is now
HeatmapQuery ==
    /\ HeatmapPending
    /\ LET meter_type == Head(response.pending)
           filters == build_query_filters(request.start_date, request.end_date,
                          request.meter, request.weekday_only,
                          request.weekend_only)
       IN response' =
            [response EXCEPT
                !.pending = Tail(@),
                !.read = (meter_type :> store) @@ @,
                !.heatmap = (meter_type :> heatmap_for_meter(store, filters,
                                                             meter_type)) @@ @]
    /\ UNCHANGED <<request, store>>
    /\ UNCHANGED loaderVars

NextH ==
    \/ LoaderCommitsCell
    \/ GetHeatmap
    \/ HeatmapQuery

SpecH == InitH /\ [][NextH]_vars

\* ------------------------------------------------------------------------
\* Specification of the pure functions of the backend
\* ------------------------------------------------------------------------
\* largest page number of a call
MaxPage == 3

\* the small row counts of a call go from 0 to MaxCount
MaxCount == 7

Pages == 1..MaxPage

\* page sizes: small ones, the smallest one the endpoint accepts and its
\* default
PerPages == {1, 2, 3, 100, 10000}

\* row counts: small ones, counts around a page boundary, three months of
\* quarter-hour readings, and counts of two and three default pages
TotalCounts == (0..MaxCount) \cup {99, 100, 101, 8640, 10000, 20000, 25000}

\* variant of build_pagination_response: the page count rounded down
build_pagination_response_floor(page, per_page, total_count) ==
    LET floor == total_count \div per_page
    IN [page |-> page,
        per_page |-> per_page,
        total_count |-> total_count,
        total_pages |-> IF floor > 1 THEN floor ELSE 1,
        has_next |-> page * per_page < total_count,
        has_prev |-> page > 1]

\* build_pagination_response
build_pagination_response(page, per_page, total_count) ==
    LET pages == (total_count + per_page - 1) \div per_page
    IN [page |-> page,
        per_page |-> per_page,
        total_count |-> total_count,
        total_pages |-> IF pages > 1 THEN pages ELSE 1,
        has_next |-> page * per_page < total_count,
        has_prev |-> page > 1]

\* the calls whose results are checked: get_tariff_for_hour on every hour of
\* the day and both day types, build_pagination_response on the pages, page
\* sizes and row counts above
TariffCalls ==
    {[op |-> "tariff", hour |-> h, is_weekend |-> w] : h \in 0..23, w \in BOOLEAN}

PaginationCalls ==
    {[op |-> "pagination", page |-> p, per_page |-> n, total_count |-> c] :
        p \in Pages, n \in PerPages, c \in TotalCounts}

InitF ==
    /\ LoaderAtRest
    /\ store = {}
    /\ request \in TariffCalls \cup PaginationCalls
    /\ response = NoResponse

\* the call get_tariff_for_hour(hour, is_weekend) returns
CallGetTariffForHour ==
    /\ request.op = "tariff"
    /\ response = NoResponse
    /\ response' = [op |-> "tariff",
                    tariff |-> get_tariff_for_hour(request.hour, request.is_weekend)]
    /\ UNCHANGED <<request, store>>
    /\ UNCHANGED loaderVars

\* the call build_pagination_response(page, per_page, total_count) returns
CallBuildPaginationResponse ==
    /\ request.op = "pagination"
    /\ response = NoResponse
    /\ response' = [op |-> "pagination",
                    pagination |-> build_pagination_response(
                        request.page, request.per_page, request.total_count)]
    /\ UNCHANGED <<request, store>>
    /\ UNCHANGED loaderVars

NextF ==
    \/ CallGetTariffForHour
    \/ CallBuildPaginationResponse

SpecF == InitF /\ [][NextF]_vars

\* ------------------------------------------------------------------------
\* Specification of a client that pages through the readings of a table
\* ------------------------------------------------------------------------
\* largest number of rows the loader adds to the table while a client pages
\* through it
MaxTable == 1

\* the row the loader stores for a source record of the feed of kind k: the
\* record of meter m at the q-th quarter of an hour of the time axis, with
\* payload variant v
StoredRow(m, q, v, k) ==
    transform_data(<<[measurement |-> "energy", timestamp |-> isoformat(q),
                      tags |-> RawTags(m, v), obis |-> v]>>, k).df[1]
\* the first quarter of an hour of the Monday of the second week
Monday == 672

\* the active readings of meter M1 the table holds when the client comes, 1
\* to 3 kWh each: one per hour from Friday 00:00 to Sunday 23:00 (72 rows),
\* one per quarter of an hour on Monday (96 rows) and one per hour on
\* Tuesday from 00:00 to 03:00 (4 rows); 100 hours in all
BaseTable ==
    {StoredRow("M1", q, 1 + (q % 3), "active") :
        q \in {Monday - 288 + 4 * h : h \in 0..71}
                \cup {Monday + i : i \in 0..95}
                \cup {Monday + 96 + 4 * h : h \in 0..3}}

\* the rows the loader can write: the reading of a second meter M2 at the
\* instant of the 100th row (Monday 06:45), the next reading of M1 (Tuesday
\* 04:00), and a reactive reading of M1 on Monday at 00:00
NewRows ==
    {StoredRow("M2", Monday + 27, 3, "active"),
     StoredRow("M1", Monday + 112, 2, "active"),
     StoredRow("M1", Monday, 1, "reactive")}

\* the windows a request can name, as <<start_date, end_date>>: open, and
\* that Monday alone
ReadingWindows == {<<None, None>>, <<7, 7>>}

\* the day restrictions a request can carry, as <<weekday_only,
\* weekend_only>>: none, weekdays, weekends
DayFlags == {<<FALSE, FALSE>>, <<TRUE, FALSE>>, <<FALSE, TRUE>>}

\* the values of per_page a client sends: one below the smallest the
\* endpoint accepts, and the smallest
PageSizes == {99, 100}

\* line 647: per_page: int = Query(10000, ge=100, le=50000)
per_page_valid(per_page) == 100 <= per_page /\ per_page <= 50000

\* no COUNT query has run whose data query is still to run
NotCounted == -1

InitR ==
    /\ LoaderAtRest
    /\ store = BaseTable
    /\ request = NoRequest
    /\ response = NoResponse

\* the loader commits a batch at any moment: before the client comes, or
\* between two queries or two calls of its session
LoaderWrites ==
    /\ request.op \in {"none", "readings"}
    /\ Commit(NewRows, Cardinality(BaseTable) + MaxTable)

\* the query parameters of a GET /meter_readings for page 1
ReadingsRequests ==
    {[op |-> "readings", start_date |-> window[1], end_date |-> window[2],
      meter |-> meter, weekday_only |-> days[1], weekend_only |-> days[2],
      aggregation |-> aggregation, page |-> 1, per_page |-> per_page] :
        window \in ReadingWindows, meter \in MeterType, days \in DayFlags,
        aggregation \in Aggregation, per_page \in PageSizes}

\* get_meter_readings up to the first await of fetch_readings_paginated: the
\* parameters are validated (a per_page out of range is answered with status
\* 422 and no query runs) and the COUNT query reads the table
Arrives(req, pages) ==
    IF ~per_page_valid(req.per_page)
    THEN [op |-> "readings", status_code |-> 422, total_count |-> NotCounted,
          pages |-> pages, table |-> store]
    ELSE [op |-> "readings", status_code |-> 200,
          total_count |-> count_query(store,
              build_query_filters(req.start_date, req.end_date, req.meter,
                                  req.weekday_only, req.weekend_only),
              req.aggregation),
          pages |-> pages, table |-> store]

\* GET /meter_readings?page=1: a client asks for the first page.  In the
\* response, pages lists the bodies the client has got, total_count is the
\* result of the COUNT query while the data query of the call is still to
\* run, and table keeps the table as the first query of the client found it.
GetMeterReadings ==
    /\ request.op = "none"
    /\ \E req \in ReadingsRequests :
        /\ request' = req
        /\ response' = Arrives(req, <<>>)
    /\ UNCHANGED store
    /\ UNCHANGED loaderVars

\* the rest of the call, from the second await on: the data query reads the
\* table as it is now and the body is built (lines 668-678)
DataQuery ==
    /\ request.op = "readings"
    /\ response.total_count # NotCounted
    /\ \E data \in data_query(store,
                    build_query_filters(request.start_date, request.end_date,
                        request.meter, request.weekday_only,
                        request.weekend_only),
                    request.aggregation, request.page, request.per_page) :
        response' =
            [response EXCEPT
                !.total_count = NotCounted,
                !.pages = Append(@,
                    [data |-> data,
                     pagination |-> build_pagination_response(request.page,
                         request.per_page, response.total_count)])]
    /\ UNCHANGED <<request, store>>
    /\ UNCHANGED loaderVars

\* GET /meter_readings?page=n+1: the client asks for the page after the last
\* one it got, with the same filter, aggregation and page size, whether the
\* last one said has_next or not
GetNextPage ==
    /\ request.op = "readings"
    /\ response.status_code = 200
    /\ response.total_count = NotCounted
    /\ request.page < MaxPage
    /\ LET req == [request EXCEPT !.page = @ + 1]
       IN /\ request' = req
          /\ response' = [Arrives(req, response.pages)
                            EXCEPT !.table = response.table]
    /\ UNCHANGED store
    /\ UNCHANGED loaderVars

NextR ==
    \/ LoaderWrites
    \/ GetMeterReadings
    \/ DataQuery
    \/ GetNextPage

SpecR == InitR /\ [][NextR]_vars

\* ------------------------------------------------------------------------
\* Properties of the ingestion process
\* ------------------------------------------------------------------------
Range(f) == {f[i] : i \in 1..Len(f)}

\* the meter ids of a fetched feed
FeedMuids(data) == {data[i].tags.muid : i \in 1..Len(data)}

\* the last two run_sync calls both returned, fetched every type, and
\* fetched the same content
RanTwiceUnchanged ==
    /\ cyc.outcome = "returned"
    /\ prev.log.outcome = "returned"
    /\ \A k \in MeasurementTypes :
        /\ cyc.fetched[k].st = "ok"
        /\ prev.log.fetched[k].st = "ok"
        /\ cyc.fetched[k].data = prev.log.fetched[k].data

\* C1 as stated: for any source snapshot, the second of two successive
\* runs over the unchanged source persists zero rows and leaves the store
\* as the first run left it.
C1_AnySnapshot ==
    RanTwiceUnchanged => cyc.rows = 0 /\ store = prev.store

\* C1, amended: the second of two successive completed runs over an
\* unchanged source leaves the store exactly as the first run left it, and
\* persists zero rows when every feed carries a single meter id.
C1_Idempotent ==
    RanTwiceUnchanged =>
        /\ store = prev.store
        /\ (\A k \in MeasurementTypes :
                Cardinality(FeedMuids(cyc.fetched[k].data)) <= 1)
            => cyc.rows = 0

\* two runs over the same single-meter feeds, the first of which persisted
C1_Witness ==
    /\ RanTwiceUnchanged
    /\ \A k \in MeasurementTypes :
            Cardinality(FeedMuids(cyc.fetched[k].data)) <= 1
    /\ prev.log.rows > 0
    /\ cyc.rows = 0

\* the rows that `store` holds for a meter and a measurement type
Stored(S, muid, k) == {r \in S : r.muid = muid /\ r.measurement_type = k}

\* C2: when the store holds rows for (meterId, kind) with maximum timestamp
\* W, the iteration hands to the persist step exactly the fetched records
\* with timestamp > W, in feed order, and none with timestamp <= W.
C2_Watermark ==
    [][\A k \in MeasurementTypes :
        (cyc'.batch[k] # cyc.batch[k] /\ cyc'.batch[k].st # "none") =>
            LET all == transform_data(cyc'.fetched[k].data, k).df
                held == Stored(store, all[1].muid, k)
                passed == cyc'.batch[k].df
            IN held # {} =>
                \E W \in {r.timestamp : r \in held} :
                    /\ \A r \in held : r.timestamp <= W
                    /\ \A r \in Range(passed) : r.timestamp > W
                    /\ \A r \in Range(all) : r.timestamp > W => r \in Range(passed)
                    /\ passed = SelectSeq(all, LAMBDA r : r.timestamp > W)
    ]_vars

\* a batch with records on both sides of a watermark was filtered and upserted
C2_Witness ==
    \E k \in MeasurementTypes :
        /\ cyc.batch[k].st = "upserted"
        /\ cyc.wm[k] >= 0
        /\ \E i, j \in 1..Len(cyc.fetched[k].data) :
            /\ to_datetime(cyc.fetched[k].data[i].timestamp) <= cyc.wm[k]
            /\ to_datetime(cyc.fetched[k].data[j].timestamp) > cyc.wm[k]
        /\ Len(cyc.batch[k].df) < Len(cyc.fetched[k].data)

\* C3: in every reachable state, also after cycles that failed part-way,
\* the store holds at most one row per (meterId, timestamp, kind).
C3_KeyUnique ==
    \A r1, r2 \in store : Key(r1) = Key(r2) => r1 = r2

\* a batch that held one key twice, with different readings, was upserted
C3_Witness ==
    \E k \in MeasurementTypes :
        /\ cyc.batch[k].st = "upserted"
        /\ \E i, j \in 1..Len(cyc.batch[k].df) :
            /\ i < j
            /\ Key(cyc.batch[k].df[i]) = Key(cyc.batch[k].df[j])
            /\ cyc.batch[k].df[i].reading # cyc.batch[k].df[j].reading

\* the last record of a batch that carries the key of r
LastWithKey(df, r) ==
    df[SetMax({i \in 1..Len(df) : Key(df[i]) = Key(r)})]

\* C4 as stated: once a cycle has re-ingested a record whose key was already
\* stored with another value, the store holds the new value for that key.
C4_ReingestOverwrites ==
    cyc.outcome = "returned" =>
        \A k \in MeasurementTypes :
            cyc.fetched[k].st = "ok" =>
                LET all == transform_data(cyc.fetched[k].data, k).df
                IN \A r \in Range(all) :
                    (\E x \in prev.store : Key(x) = Key(r)) =>
                        \E x \in store :
                            /\ Key(x) = Key(r)
                            /\ x.reading = LastWithKey(all, r).reading
                            /\ x.quality = LastWithKey(all, r).quality

\* C4, amended: a record that passes the watermark filter and is handed to
\* upsert_data leaves exactly one row for its key, carrying the reading and
\* quality of the batch (the last record with that key), also when the key
\* was stored before with another value; rows of other keys are untouched.
C4_UpsertOverwrites ==
    [][\A k \in MeasurementTypes :
        (cyc'.batch[k] # cyc.batch[k] /\ cyc'.batch[k].st = "upserted") =>
            LET df == cyc'.batch[k].df
            IN /\ \A r \in Range(df) :
                    /\ LastWithKey(df, r) \in store'
                    /\ Cardinality({x \in store' : Key(x) = Key(r)}) = 1
               /\ \A x \in store :
                    (\A r \in Range(df) : Key(r) # Key(x)) => x \in store'
               /\ \A x \in store' :
                    x \in store \/ x \in Range(df)
    ]_vars

\* an upsert has replaced the reading of a key that the store already held
C4_Witness ==
    \E k \in MeasurementTypes :
        /\ cyc.batch[k].st = "upserted"
        /\ \E r \in Range(cyc.batch[k].df), x \in prev.store :
            /\ Key(x) = Key(r)
            /\ x.reading # r.reading
            /\ r \in store
            /\ x \notin store

\* C5: a failed fetch of one kind skips that kind for the cycle with nothing
\* persisted for it; the loop goes on, every other kind is still fetched,
\* filtered and persisted, and the failed fetch never makes run_sync raise.
C5_FetchFailureIsolated ==
    \A i \in 1..Len(METER_URLS) :
        LET k == METER_URLS[i]
        IN cyc.exc[k] = "RequestException" =>
            /\ cyc.batch[k] = NoBatch
            /\ cyc.wm[k] = NotQueried
            /\ {r \in store : r.measurement_type = k}
                 = {r \in prev.store : r.measurement_type = k}
            /\ kindIdx > i
            /\ cyc.outcome = "raised" =>
                 \E j \in MeasurementTypes \ {k} :
                    cyc.exc[j] \notin {"none", "RequestException"}
            /\ cyc.outcome = "returned" =>
                 \A j \in MeasurementTypes \ {k} :
                    /\ cyc.fetched[j].st # "none"
                    /\ cyc.fetched[j].st = "ok" =>
                         /\ cyc.batch[j].st \in {"skipped", "upserted"}
                         /\ cyc.batch[j].st = "upserted" =>
                              \A r \in Range(cyc.batch[j].df) :
                                 \E x \in store : Key(x) = Key(r)

\* the fetch of the first kind failed and the second kind was persisted
C5_Witness ==
    /\ cyc.outcome = "returned"
    /\ cyc.exc[METER_URLS[1]] = "RequestException"
    /\ cyc.batch[METER_URLS[2]].st = "upserted"
    /\ \E r \in store : r.measurement_type = METER_URLS[2]

\* C6: a failure in normalization, in the watermark query or in persistence
\* is raised out of run_sync: the cycle ends in error at that kind and no
\* later kind is processed.
C6_FatalPropagates ==
    \A i \in 1..Len(METER_URLS) :
        cyc.exc[METER_URLS[i]] \notin {"none", "RequestException"} =>
            /\ cyc.outcome = "raised"
            /\ kindIdx = i
            /\ inflight = 0
            /\ \A j \in (i + 1)..Len(METER_URLS) :
                    cyc.fetched[METER_URLS[j]].st = "none"

\* the first kind met a payload without a reading column and the second
\* kind was never fetched
C6_Witness ==
    /\ cyc.exc[METER_URLS[1]] = "IndexError"
    /\ cyc.fetched[METER_URLS[1]].data # <<>>
    /\ cyc.outcome = "raised"
    /\ cyc.fetched[METER_URLS[2]].st = "none"

\* a store failure in persistence ended the cycle
C6_WitnessStore ==
    \E k \in MeasurementTypes :
        cyc.exc[k] = "DatabaseError" /\ cyc.batch[k].st = "failed"

FirstCycleEnded == cycles > 1 \/ (cycles = 1 /\ cyc.outcome # "running")

FirstCycleReturned == cycles > 1 \/ (cycles = 1 /\ cyc.outcome = "returned")

\* C7: the readiness marker is written at most once per process, never
\* before the first sync cycle has ended, and it is written as soon as that
\* first cycle has returned, with or without skipped kinds.
C7_ReadinessMarker ==
    /\ markerWrites \in {0, 1}
    /\ markerWrites = 1 => FirstCycleEnded /\ FirstCycleReturned
    /\ (FirstCycleReturned /\ pc # "touch") => markerWrites = 1

\* the marker was written after a first cycle in which a fetch had failed
C7_Witness ==
    /\ markerWrites = 1
    /\ cycles = 1
    /\ \E k \in MeasurementTypes : cyc.exc[k] = "RequestException"

\* C8: at every moment at most one sync cycle is in progress; a cycle
\* starts only when no other is running, also when a period boundary
\* passed during the running one.
C8_SingleFlight ==
    /\ inflight \in {0, 1}
    /\ inflight = 1 <=> pc = "run_sync"

\* a period boundary passed while a periodic cycle was still running, and
\* the scheduler has a further cycle to start once this one has returned
C8_Witness ==
    /\ missed
    /\ inflight = 1
    /\ cycles > 1
    /\ cycles < MaxCycles

\* C9: after a periodic cycle that failed on the store (persistence or the
\* watermark query), the engine is still in its scheduling loop, so that a
\* cycle runs at the next period.
C9_RetryAfterStoreFailure ==
    (/\ cycles > 1
     /\ cyc.outcome = "raised"
     /\ \E k \in MeasurementTypes : cyc.exc[k] = "DatabaseError")
    => pc = "loop"

\* C19: when the feed of a kind holds records of more than one meter, the
\* iteration logs a warning and does not fail over it: it fails only when
\* the store cannot be reached or rejects the batch; otherwise it queries the
\* watermark, hands to the persist step the fetched records of all meters
\* above that watermark, in feed order, and the loop goes on with the next
\* kind.
C19_MultiMeterTolerated ==
    \A k \in MeasurementTypes :
        LET data == cyc.fetched[k].data
            all == transform_data(data, k).df
            batch == cyc.batch[k]
        IN (/\ cyc.fetched[k].st = "ok"
            /\ batch.st # "none" \/ cyc.exc[k] # "none"
            /\ Cardinality(FeedMuids(data)) > 1
            /\ \A i \in 1..Len(data) : HasReading(data[i])) =>
            /\ cyc.warned[k]
            /\ cyc.exc[k] \in {"none", "DatabaseError"}
            /\ (faults = 0 /\ ~HasDuplicateKey(all)) => cyc.exc[k] = "none"
            /\ cyc.exc[k] = "none" =>
                /\ cyc.wm[k] # NotQueried
                /\ batch.st \in {"pending", "skipped", "upserted"}
                /\ batch.df = SelectSeq(all, LAMBDA r :
                                 cyc.wm[k] = None \/ r.timestamp > cyc.wm[k])
                /\ batch.st = "pending" =>
                     pc = "run_sync" /\ METER_URLS[kindIdx] = k
                /\ batch.st = "upserted" =>
                     \A r \in Range(batch.df) : \E x \in store : Key(x) = Key(r)
                /\ (k = METER_URLS[1] /\ batch.st # "pending") =>
                     \/ cyc.fetched[METER_URLS[2]].st # "none"
                     \/ pc = "run_sync" /\ kindIdx = 2

\* the active feed held records of two meters, both were upserted, and the
\* reactive feed was fetched after it
C19_Witness ==
    /\ cyc.warned["active"]
    /\ cyc.batch["active"].st = "upserted"
    /\ Cardinality({r.muid : r \in Range(cyc.batch["active"].df)}) = 2
    /\ cyc.fetched["reactive"].st = "ok"

\* a feed of two meters filtered by the watermark of the first one
C19_WitnessWatermark ==
    \E k \in MeasurementTypes :
        /\ cyc.warned[k]
        /\ cyc.wm[k] >= 0
        /\ cyc.exc[k] = "none"
        /\ Len(cyc.batch[k].df) < Len(cyc.fetched[k].data)

\* no record of the fetched feed of kind k is left for the persist step: the
\* feed is empty, or the store holds rows of the meter of its first record
\* and no record of the feed is later than the latest of them
NothingRemains(k) ==
    LET data == cyc.fetched[k].data
    IN \/ data = <<>>
       \/ /\ \A i \in 1..Len(data) : HasReading(data[i])
          /\ \A i \in 1..Len(data) :
               \E r \in Stored(store, data[1].tags.muid, k) :
                   to_datetime(data[i].timestamp) <= r.timestamp

\* the step is the one the iteration of run_sync for kind k takes with the
\* feed it has fetched, and no call of it meets an outage
IteratesUnfaulted(k) ==
    /\ Stage = "query"
    /\ METER_URLS[kindIdx] = k
    /\ cyc' # cyc
    /\ faults' = faults

\* the iteration skipped the persist step, left the store as it was, and the
\* cycle went on without error
SkippedAsNoop(k) ==
    /\ cyc'.exc[k] = "none"
    /\ cyc'.batch[k].st = "skipped"
    /\ store' = store
    /\ cyc'.outcome \in {"running", "returned"}
    /\ pc' # "crashed"
    /\ kindIdx' = kindIdx + 1

\* C20: for every kind, when no record is left for the persist step (the
\* feed is empty, or every record is at or below the watermark) the
\* iteration skips the persist step, leaves the store unchanged, and the
\* cycle goes on with the next kind without error.
C20_NothingToPersistNoop ==
    [][\A k \in MeasurementTypes :
        (IteratesUnfaulted(k) /\ NothingRemains(k)) => SkippedAsNoop(k)]_vars

\* the part of C20 about a feed that holds records, all of them at or below
\* the watermark
C20_SkipWhenAllOld ==
    [][\A k \in MeasurementTypes :
        (IteratesUnfaulted(k) /\ NothingRemains(k)
            /\ cyc.fetched[k].data # <<>>)
            => SkippedAsNoop(k)]_vars

\* an iteration over an empty feed has ended the cycle with an exception
C20_WitnessEmptyFeed ==
    \E k \in MeasurementTypes :
        /\ cyc.fetched[k].st = "ok"
        /\ cyc.fetched[k].data = <<>>
        /\ cyc.exc[k] = "IndexError"
        /\ pc = "crashed"

\* an iteration over a feed of old records has skipped the persist step
C20_WitnessAllOld ==
    \E k \in MeasurementTypes :
        /\ cyc.batch[k].st = "skipped"
        /\ cyc.fetched[k].data # <<>>
        /\ cyc.wm[k] >= 0

\* the watermark of a (meter, measurement type) pair: the latest timestamp
\* the store holds for it, None when it holds no row of the pair
WatermarkOf(S, muid, k) ==
    IF Stored(S, muid, k) = {} THEN None
    ELSE CHOOSE w \in {r.timestamp : r \in Stored(S, muid, k)} :
            \A r \in Stored(S, muid, k) : r.timestamp <= w

\* the iteration of run_sync for kind k upserts its batch in this step
PersistsNow(k) == cyc.batch[k].st = "pending" /\ cyc'.batch[k].st = "upserted"

\* C21: in every step of every cycle, failed or not, the watermark of each
\* (meterId, kind) pair does not decrease and every stored key stays stored;
\* and when an iteration persists rows for a feed of a single meter, the
\* watermark of that meter and kind becomes the latest timestamp of the
\* fetched records.
C21_WatermarkMonotonic ==
    [][/\ store' # store =>
            \A m \in Muids, k \in MeasurementTypes :
                WatermarkOf(store', m, k) >= WatermarkOf(store, m, k)
       /\ store' # store =>
            \A r \in store : \E x \in store' : Key(x) = Key(r)
       /\ \A k \in MeasurementTypes :
            LET data == cyc'.fetched[k].data
            IN (PersistsNow(k) /\ Cardinality(FeedMuids(data)) = 1) =>
                /\ WatermarkOf(store', data[1].tags.muid, k) # None
                /\ \A i \in 1..Len(data) :
                     to_datetime(data[i].timestamp)
                        <= WatermarkOf(store', data[1].tags.muid, k)
                /\ \E i \in 1..Len(data) :
                     to_datetime(data[i].timestamp)
                        = WatermarkOf(store', data[1].tags.muid, k)
    ]_vars

\* a second cycle has persisted a later record of a single-meter feed: the
\* watermark it had read was lower than the one it leaves
C21_Witness ==
    \E k \in MeasurementTypes :
        /\ cycles = 2
        /\ cyc.batch[k].st = "upserted"
        /\ cyc.wm[k] >= 0
        /\ Cardinality(FeedMuids(cyc.fetched[k].data)) = 1
        /\ WatermarkOf(store, cyc.fetched[k].data[1].tags.muid, k) > cyc.wm[k]

\* a cycle has failed at the store after rows were stored: they are still there
C21_WitnessFailed ==
    /\ pc = "crashed"
    /\ \E k \in MeasurementTypes : cyc.exc[k] = "DatabaseError"
    /\ store # {}

\* the rows of a (meter, kind) pair at or below a timestamp
UpTo(S, muid, k, w) == {r \in Stored(S, muid, k) : r.timestamp <= w}

\* the feed of kind k does not apply another meter's watermark to muid: the
\* feed is empty, or muid is the meter of its first record, or muid has no
\* record in it
OwnWatermark(data, muid) ==
    \/ data = <<>>
    \/ data[1].tags.muid = muid
    \/ muid \notin FeedMuids(data)

\* C22 as stated: in every step, for every (meterId, kind) pair that has a
\* watermark, the rows of the pair at or below the watermark are the same
\* after the step as before: none is added and none is changed.
C22_NeverBelowWatermark ==
    [][\A m \in Muids, k \in MeasurementTypes :
          WatermarkOf(store, m, k) # None =>
              UpTo(store', m, k, WatermarkOf(store, m, k))
                  = UpTo(store, m, k, WatermarkOf(store, m, k))
    ]_vars

\* C22, amended: the same holds for every pair whose meter is the meter of the
\* first record of the feed being synchronised (or has no record in that
\* feed), and the iteration writes no row of its kind, of any meter, at or
\* below the watermark it queried.
C22_NeverBelowQueriedWatermark ==
    [][/\ \A m \in Muids, k \in MeasurementTypes :
            (store' # store
                /\ WatermarkOf(store, m, k) # None
                /\ OwnWatermark(cyc'.fetched[k].data, m)) =>
                UpTo(store', m, k, WatermarkOf(store, m, k))
                    = UpTo(store, m, k, WatermarkOf(store, m, k))
       /\ \A k \in MeasurementTypes :
            (store' # store /\ cyc'.batch[k] # cyc.batch[k] /\ cyc'.wm[k] >= 0) =>
                \A m \in Muids :
                    UpTo(store', m, k, cyc'.wm[k])
                        = UpTo(store, m, k, cyc'.wm[k])
    ]_vars

\* the feed holds, for the key of the stored row r, another reading
RevisedInFeed(data, r) ==
    \E i \in 1..Len(data) :
        /\ data[i].tags.muid = r.muid
        /\ to_datetime(data[i].timestamp) = r.timestamp
        /\ HasReading(data[i])
        /\ data[i].obis # r.reading

\* a cycle has persisted newer records of a feed and left alone a stored row
\* whose value the source had changed
C22_Witness ==
    \E k \in MeasurementTypes :
        /\ cyc.batch[k].st = "upserted"
        /\ cyc.wm[k] >= 0
        /\ \E r \in store :
            /\ r.measurement_type = k
            /\ r.muid = cyc.fetched[k].data[1].tags.muid
            /\ r.timestamp <= cyc.wm[k]
            /\ RevisedInFeed(cyc.fetched[k].data, r)

\* a cycle has left out a record that appeared late in the source, at or
\* below the watermark, with no stored row for its key
C22_WitnessLate ==
    \E k \in MeasurementTypes :
        /\ cyc.batch[k].st \in {"skipped", "upserted"}
        /\ cyc.wm[k] >= 0
        /\ \E i \in 1..Len(cyc.fetched[k].data) :
            LET rec == cyc.fetched[k].data[i]
            IN /\ rec.tags.muid = cyc.fetched[k].data[1].tags.muid
               /\ to_datetime(rec.timestamp) < cyc.wm[k]
               /\ \A r \in store :
                    ~(r.muid = rec.tags.muid /\ r.measurement_type = k
                        /\ r.timestamp = to_datetime(rec.timestamp))

\* the feed of kind k fetched in the current cycle holds several meters
MultiMeter(data) == Cardinality(FeedMuids(data)) > 1

\* C23: when an iteration of run_sync reaches its filter with a feed of
\* several meters, the watermark it uses is the latest stored timestamp of the
\* meter of the feed's first record, for the kind of the feed; the batch it
\* hands to the upsert is every record of the feed, of whichever meter, whose
\* timestamp is later than that watermark, and the whole feed when the first
\* meter has no stored row of that kind.
C23_OneWatermarkPerFeed ==
    [][\A k \in MeasurementTypes :
          (/\ cyc'.batch[k] # cyc.batch[k]
           /\ cyc'.batch[k].st # "none"
           /\ MultiMeter(cyc'.fetched[k].data)) =>
              LET all == transform_data(cyc'.fetched[k].data, k).df
                  first == cyc'.fetched[k].data[1].tags.muid
                  W == WatermarkOf(store, first, k)
                  passed == cyc'.batch[k].df
              IN /\ cyc'.wm[k] = W
                 /\ W = None => passed = all
                 /\ W # None =>
                      /\ \A i \in 1..Len(passed) : passed[i].timestamp > W
                      /\ \A i \in 1..Len(all) :
                           all[i].timestamp > W =>
                               \E j \in 1..Len(passed) : passed[j] = all[i]
                      /\ \A j \in 1..Len(passed) :
                           \E i \in 1..Len(all) : passed[j] = all[i]
                 /\ cyc'.batch[k].st = "upserted" =>
                      \A i \in 1..Len(passed) :
                          \E x \in store' : Key(x) = Key(passed[i])
    ]_vars

\* a feed of two meters was filtered by the watermark of its first meter: a
\* record of the other meter at or below it was discarded although the store
\* holds no row of that meter
C23_Witness ==
    \E k \in MeasurementTypes :
        /\ cyc.batch[k].st \in {"skipped", "upserted"}
        /\ MultiMeter(cyc.fetched[k].data)
        /\ cyc.wm[k] >= 0
        /\ \E i \in 1..Len(cyc.fetched[k].data) :
            LET rec == cyc.fetched[k].data[i]
            IN /\ rec.tags.muid # cyc.fetched[k].data[1].tags.muid
               /\ to_datetime(rec.timestamp) <= cyc.wm[k]
               /\ Stored(store, rec.tags.muid, k) = {}

\* the first meter of a two-meter feed had no stored row: the whole feed, the
\* records of both meters, was persisted
C23_WitnessWholeBatch ==
    \E k \in MeasurementTypes :
        /\ cyc.batch[k].st = "upserted"
        /\ MultiMeter(cyc.fetched[k].data)
        /\ cyc.wm[k] = None
        /\ Len(cyc.batch[k].df) = Len(cyc.fetched[k].data)
        /\ \A m \in FeedMuids(cyc.fetched[k].data) : Stored(store, m, k) # {}

\* ------------------------------------------------------------------------
\* Properties of the backend
\* ------------------------------------------------------------------------
\* the active readings of the table inside the window a request names:
\* dates inclusive, weekday_only before weekend_only, whatever its meter
ActiveInWindow(S, req) ==
    {r \in S :
        /\ r.measurement_type = "active"
        /\ req.start_date # None => r.timestamp \div 96 >= req.start_date
        /\ req.end_date # None => r.timestamp \div 96 <= req.end_date
        /\ req.weekday_only => ExtractDow(r.timestamp) \notin {0, 6}
        /\ (~req.weekday_only /\ req.weekend_only)
              => ExtractDow(r.timestamp) \in {0, 6}}

\* the readings of a set of rows that fall in a peak cell: Monday to Friday,
\* 07:00 to 19:59
InPeakCell(r) ==
    /\ ExtractDow(r.timestamp) \in 1..5
    /\ ExtractHour(r.timestamp) \in 7..19

\* C10: the peak and off-peak kWh of a cost breakdown add up to the total
\* kWh of all active readings in the filtered window, and each reading is
\* counted in exactly one of the two: the peak total is the sum of the
\* readings in peak cells, the off-peak total the sum of the others.
C10_CostReconciles ==
    request.op = "cost" =>
        LET win == ActiveInWindow(store, request)
            cb == response.cost_breakdown
        IN /\ cb.high_tariff.kwh + cb.low_tariff.kwh = SumReading(win)
           /\ cb.total_kwh = SumReading(win)
           /\ cb.high_tariff.kwh = SumReading({r \in win : InPeakCell(r)})
           /\ cb.low_tariff.kwh = SumReading({r \in win : ~InPeakCell(r)})

\* a breakdown over a window with a peak cell that sums two readings and an
\* off-peak reading
C10_Witness ==
    /\ request.op = "cost"
    /\ response.cost_breakdown.high_tariff.kwh > 0
    /\ response.cost_breakdown.low_tariff.kwh > 0
    /\ \E r1, r2 \in ActiveInWindow(store, request) :
        r1 # r2 /\ r1.timestamp = r2.timestamp /\ InPeakCell(r1)

\* a breakdown over a window that leaves out a stored active reading
C10_WitnessWindow ==
    /\ request.op = "cost"
    /\ response.cost_breakdown.total_kwh > 0
    /\ \E r \in store :
        r.measurement_type = "active" /\ r \notin ActiveInWindow(store, request)

\* C11: in the cost breakdown of a window that holds consumption in both
\* tariffs, the cost of the whole consumption at the peak rate is at least
\* the total cost, which is at least its cost at the off-peak rate.
C11_CostOrdering ==
    (/\ request.op = "cost"
     /\ \E r \in ActiveInWindow(store, request) : InPeakCell(r) /\ r.reading > 0
     /\ \E r \in ActiveInWindow(store, request) : ~InPeakCell(r) /\ r.reading > 0)
    => LET cb == response.cost_breakdown
       IN /\ cb.comparison.all_high_tariff_cost >= cb.total_cost
          /\ cb.total_cost >= cb.comparison.all_low_tariff_cost

\* a breakdown of a window with peak and off-peak consumption, where the
\* three amounts differ
C11_Witness ==
    /\ request.op = "cost"
    /\ \E r \in ActiveInWindow(store, request) : InPeakCell(r) /\ r.reading > 0
    /\ \E r \in ActiveInWindow(store, request) : ~InPeakCell(r) /\ r.reading > 0
    /\ response.cost_breakdown.comparison.all_high_tariff_cost
         > response.cost_breakdown.total_cost
    /\ response.cost_breakdown.total_cost
         > response.cost_breakdown.comparison.all_low_tariff_cost

\* C12: no cost breakdown ends in a division fault, and when the active
\* readings of the filtered window add up to 0 kWh (in particular when no
\* active reading matches) both percent_of_total values and the effective
\* rate of the report are 0.
C12_ZeroTotalGuard ==
    request.op = "cost" =>
        /\ response.cost_breakdown.exc = "none"
        /\ SumReading(ActiveInWindow(store, request)) = 0 =>
            /\ response.cost_breakdown.high_tariff.percent_of_total = 0
            /\ response.cost_breakdown.low_tariff.percent_of_total = 0
            /\ response.cost_breakdown.effective_rate = 0
            /\ response.cost_breakdown.total_kwh = 0

\* a breakdown of a window that no active reading falls in, over a table
\* that holds active readings
C12_Witness ==
    /\ request.op = "cost"
    /\ \E r \in store : r.measurement_type = "active"
    /\ ActiveInWindow(store, request) = {}
    /\ response.cost_breakdown.exc = "none"
    /\ response.cost_breakdown.effective_rate = 0

\* a breakdown of a window whose active readings are all 0 kWh
C12_WitnessZeroReadings ==
    /\ request.op = "cost"
    /\ ActiveInWindow(store, request) # {}
    /\ SumReading(ActiveInWindow(store, request)) = 0
    /\ response.cost_breakdown.exc = "none"

\* a breakdown with a non-zero total: the percentages add up to 100 and the
\* effective rate lies between the two rates
C12_WitnessDivides ==
    /\ request.op = "cost"
    /\ response.cost_breakdown.exc = "none"
    /\ response.cost_breakdown.total_kwh > 0
    /\ response.cost_breakdown.high_tariff.percent_of_total
         + response.cost_breakdown.low_tariff.percent_of_total \in 999..1001
    /\ response.cost_breakdown.effective_rate \in 2201..3199

\* the readings of kind k of the table inside the window a request names:
\* dates inclusive, weekday_only before weekend_only, whatever its meter
KindInWindow(S, req, k) ==
    {r \in S :
        /\ r.measurement_type = k
        /\ req.start_date # None => r.timestamp \div 96 >= req.start_date
        /\ req.end_date # None => r.timestamp \div 96 <= req.end_date
        /\ req.weekday_only => ExtractDow(r.timestamp) \notin {0, 6}
        /\ (~req.weekday_only /\ req.weekend_only)
              => ExtractDow(r.timestamp) \in {0, 6}}

\* the readings of a set that fall in hour h of day-of-week d
InCell(R, h, d) ==
    {r \in R : ExtractHour(r.timestamp) = h /\ ExtractDow(r.timestamp) = d}

\* fetch_heatmap has run the query of every meter type and returned
HeatmapReturned == request.op = "heatmap" /\ response.pending = <<>>

\* C14: every heatmap fetch_heatmap returns holds one matrix for active and
\* one for reactive, whatever kind the filter names; each matrix has 24 rows
\* of 7 cells; a cell that no reading of that kind in the filtered window
\* falls in, in the table as the query of that kind found it, is 0, and any
\* other cell is the average of the readings that fall in it, rounded to a
\* millionth of a kWh.
C14_HeatmapComplete ==
    HeatmapReturned =>
        /\ DOMAIN response.heatmap = {"active", "reactive"}
        /\ \A k \in {"active", "reactive"} :
           \A win \in {KindInWindow(response.read[k], request, k)} :
           \A observed \in {{<<ExtractHour(r.timestamp), ExtractDow(r.timestamp)>> :
                               r \in win}} :
            LET v == response.heatmap[k].values
            IN /\ Len(v) = 24
               /\ Len(response.heatmap[k].hours) = 24
               /\ Len(response.heatmap[k].days) = 7
               /\ \A h \in 1..24 :
                    /\ Len(v[h]) = 7
                    /\ \A d \in 1..7 :
                        <<h - 1, d - 1>> \notin observed => v[h][d] = 0
               /\ \A c \in observed :
                    LET cell == InCell(win, c[1], c[2])
                        n == Cardinality(cell)
                        diff == v[c[1] + 1][c[2] + 1] * n
                                  - SumReading(cell) * 1000000
                    IN 2 * diff <= n /\ -2 * diff <= n

\* a heatmap for a filter restricted to active over a table with a non-zero
\* reactive reading in the window: the reactive matrix has a non-zero cell
\* (Monday 10:00) and an empty one (Sunday 00:00)
C14_Witness ==
    /\ HeatmapReturned
    /\ request.meter = "active"
    /\ response.heatmap["reactive"].values[11][2] > 0
    /\ response.heatmap["reactive"].values[1][1] = 0
    /\ \E r \in store : r.measurement_type = "active"

\* a heatmap over a window that no stored reading falls in: all cells are 0
C14_WitnessEmpty ==
    /\ HeatmapReturned
    /\ store # {}
    /\ \A k \in {"active", "reactive"} : KindInWindow(store, request, k) = {}
    /\ \A k \in {"active", "reactive"} : \A h \in 1..24 : \A d \in 1..7 :
        response.heatmap[k].values[h][d] = 0

\* a cell that averages the readings of two meters
C14_WitnessAverage ==
    /\ HeatmapReturned
    /\ response.heatmap["active"].values[11][2] = 1500000

\* a cell whose average of three readings, 5/3 kWh, is rounded up
C14_WitnessRounded ==
    /\ HeatmapReturned
    /\ response.heatmap["reactive"].values[11][2] = 1666667

\* the loader commits the first rows between the two queries of a request:
\* the active matrix is all 0 although the table now holds an active reading
\* in the window, and the reactive matrix is filled
C14_WitnessInterleaved ==
    /\ HeatmapReturned
    /\ response.read["active"] = {}
    /\ KindInWindow(store, request, "active") # {}
    /\ \A h \in 1..24 : \A d \in 1..7 : response.heatmap["active"].values[h][d] = 0
    /\ \E h \in 1..24 : \E d \in 1..7 : response.heatmap["reactive"].values[h][d] > 0

\* C18: whatever kind the filter names, the cost breakdown prices the
\* active readings of the window and nothing else: its total is the sum of
\* the active readings that satisfy the date and weekday/weekend
\* restrictions, and the report is the one the same request gets over the
\* table without its reactive rows, and the one it gets when it names
\* another kind.
C18_ActiveOnly ==
    request.op = "cost" =>
        LET filters(m) == build_query_filters(request.start_date, request.end_date,
                              m, request.weekday_only, request.weekend_only)
            activeRows == {r \in store : r.measurement_type = "active"}
        IN /\ response.cost_breakdown.total_kwh
                = SumReading(KindInWindow(store, request, "active"))
           /\ response.cost_breakdown
                = fetch_cost_breakdown(activeRows, filters(request.meter))
           /\ \A m \in MeterType :
                response.cost_breakdown = fetch_cost_breakdown(store, filters(m))

\* a breakdown for a filter restricted to reactive, over a window that holds
\* reactive and active consumption and leaves out a stored active reading
C18_Witness ==
    /\ request.op = "cost"
    /\ request.meter = "reactive"
    /\ response.cost_breakdown.total_kwh > 0
    /\ \E r \in KindInWindow(store, request, "reactive") : r.reading > 0
    /\ \E r \in store :
        /\ r.measurement_type = "active"
        /\ r.reading > 0
        /\ r \notin KindInWindow(store, request, "active")

\* ------------------------------------------------------------------------
\* Properties of the paginated readings
\* ------------------------------------------------------------------------
\* the rows of the table that a request selects: inside its window and of the
\* kind it names
Matching(S, req) ==
    UNION {KindInWindow(S, req, k) :
             k \in {x \in MeasurementTypes : req.meter \in {"both", x}}}

\* the calendar bucket an instant falls in: the start of its hour, the 00:00
\* of its day, the Monday 00:00 of its week
BucketStart(aggregation, ts) ==
    LET hourStart == ts - (ts % 4)
        dayStart == hourStart - 4 * ExtractHour(ts)
    IN CASE aggregation = "hourly" -> hourStart
         [] aggregation = "daily" -> dayStart
         [] aggregation = "weekly" -> dayStart - 96 * ((ExtractDow(ts) + 6) % 7)

\* the instant an ISO string names
Instant(iso) == (iso.day * 24 + iso.hour) * 4 + iso.minute \div 15

\* the (bucket, measurement type) groups of the rows a request selects
Groups(S, req) ==
    {<<BucketStart(req.aggregation, r.timestamp), r.measurement_type>> :
        r \in Matching(S, req)}

\* the items of a sequence of pages, in the order of the pages
RECURSIVE AllData(_)
AllData(pages) ==
    IF pages = <<>> THEN <<>>
    ELSE pages[1].data \o AllData(Tail(pages))

\* the endpoint has accepted the requests of the client
Served == request.op = "readings" /\ response.status_code = 200

\* the table is the one the first query of the client found: the loader only
\* adds rows here, so every query of the client so far has read this table
SameTable == Served /\ response.table = store

\* the client has got every page from 1 to total_pages, all from one table
GotAllPages ==
    /\ SameTable
    /\ response.pages # <<>>
    /\ Len(response.pages) >= response.pages[1].pagination.total_pages

\* the items of the pages 1..total_pages
SessionData ==
    AllData(SubSeq(response.pages, 1, response.pages[1].pagination.total_pages))

\* the items of a sequence are in (timestamp, measurement type) order
InOrder(items) ==
    \A i \in 1..(Len(items) - 1) :
        \/ Instant(items[i].timestamp) < Instant(items[i + 1].timestamp)
        \/ /\ Instant(items[i].timestamp) = Instant(items[i + 1].timestamp)
           /\ ~(items[i].measurement_type = "reactive"
                  /\ items[i + 1].measurement_type = "active")

\* what a raw item shows of a stored row
Shown(r) ==
    [timestamp |-> r.timestamp, measurement_type |-> r.measurement_type,
     reading |-> r.reading, quality |-> r.quality]

ShownBy(item) ==
    [timestamp |-> Instant(item.timestamp),
     measurement_type |-> item.measurement_type,
     reading |-> item.reading, quality |-> item.quality]

\* the raw items are the selected rows, each one once: as many items as
\* rows, and each row shown as many times as there are rows that look like it
RowsOnce(items, rows) ==
    LET shown == {Shown(r) : r \in rows}
        got == {ShownBy(items[i]) : i \in 1..Len(items)}
    IN /\ Len(items) = Cardinality(rows)
       /\ got = shown
       /\ Cardinality(shown) < Cardinality(rows) =>
            \A v \in shown :
                Cardinality({i \in 1..Len(items) : ShownBy(items[i]) = v})
                  = Cardinality({x \in rows : Shown(x) = v})

\* the bucket items are the groups, each one once
GroupsOnce(items, groups) ==
    /\ Len(items) = Cardinality(groups)
    /\ {<<Instant(items[i].timestamp), items[i].measurement_type>> :
            i \in 1..Len(items)} = groups

\* the total_count every call of the client reports is the number of
\* selected rows in raw mode and the number of groups in a bucketed mode
CountByGranularity ==
    SameTable =>
        \A expected \in {IF request.aggregation = "raw"
                          THEN Cardinality(Matching(store, request))
                          ELSE Cardinality(Groups(store, request))} :
            /\ response.total_count \in {NotCounted, expected}
            /\ \A i \in 1..Len(response.pages) :
                    response.pages[i].pagination.total_count = expected

\* a page after total_pages is empty
NothingPastTheEnd ==
    SameTable =>
        \A i \in 1..Len(response.pages) :
            i > response.pages[1].pagination.total_pages
                => response.pages[i].data = <<>>

\* C16: for a fixed table and filter, total_count is the number of selected
\* rows in raw mode and the number of (bucket, measurement type) groups in a
\* bucketed mode, and the pages 1..total_pages together hold every selected
\* row (raw) or every group (bucketed) exactly once, in (timestamp,
\* measurement type) order.
C16_PagesCoverOnce ==
    /\ CountByGranularity
    /\ GotAllPages =>
        /\ InOrder(SessionData)
        /\ IF request.aggregation = "raw"
           THEN RowsOnce(SessionData, Matching(store, request))
           ELSE GroupsOnce(SessionData, Groups(store, request))

\* the part of C16 that does not depend on the order of rows with the same
\* timestamp and measurement type: the counts, and the pages of a bucketed
\* mode, and the pages of raw mode when no two selected rows share both
C16_Deterministic ==
    /\ CountByGranularity
    /\ NothingPastTheEnd
    /\ (GotAllPages /\ request.aggregation # "raw") =>
        /\ InOrder(SessionData)
        /\ GroupsOnce(SessionData, Groups(store, request))
    /\ (/\ GotAllPages
        /\ request.aggregation = "raw"
        /\ \A sel \in {Matching(store, request)} :
              Cardinality({<<r.timestamp, r.measurement_type>> : r \in sel})
                = Cardinality(sel)) =>
        /\ InOrder(SessionData)
        /\ RowsOnce(SessionData, Matching(store, request))

\* the sum of the counts of a sequence of bucket items
SumCount(items) ==
    SumBag([c \in {items[i].count : i \in 1..Len(items)} |->
                Cardinality({i \in 1..Len(items) : items[i].count = c})])

\* C17: in a bucketed mode every item is one (calendar bucket, measurement
\* type) group of the selected rows, and its count, sum, minimum and maximum
\* are those of the selected rows of that type in that bucket; once all pages
\* are fetched every group has come exactly once, so the counts add up to
\* the number of selected rows, which is the total_count of raw mode.
C17_BucketAggregates ==
    (SameTable /\ request.aggregation # "raw") =>
        \A sel \in {Matching(store, request)} :
        \A bucket \in {Tabulate([r \in sel |->
                          <<BucketStart(request.aggregation, r.timestamp),
                            r.measurement_type>>])} :
        LET members(b) ==
                {r \in sel : bucket[r] = <<Instant(b.timestamp),
                                           b.measurement_type>>}
            filters == build_query_filters(request.start_date, request.end_date,
                          request.meter, request.weekday_only, request.weekend_only)
        IN /\ \A p \in 1..Len(response.pages) :
              \A i \in 1..Len(response.pages[p].data) :
              \A b \in {response.pages[p].data[i]} :
              \A m \in {members(b)} :
                   /\ m # {}
                   /\ b.count = Cardinality(m)
                   /\ b.reading = SumReading(m)
                   /\ \A r \in m : b.min_reading <= r.reading
                                    /\ r.reading <= b.max_reading
                   /\ \E r \in m : r.reading = b.min_reading
                   /\ \E r \in m : r.reading = b.max_reading
           /\ GotAllPages =>
                /\ GroupsOnce(SessionData, Groups(store, request))
                /\ SumCount(SessionData) = Cardinality(sel)
                /\ \A res \in fetch_readings_paginated(store, store, filters,
                                    "raw", 1, request.per_page) :
                     res.total_count = SumCount(SessionData)

\* the hourly buckets of a Monday of 96 readings, 4 per hour: one page of 24
\* buckets with count 4 each
C17_Witness ==
    /\ GotAllPages
    /\ request.aggregation = "hourly"
    /\ request.start_date = 7 /\ request.end_date = 7
    /\ Cardinality(Matching(store, request)) = 96
    /\ Len(SessionData) = 24
    /\ \A i \in 1..24 : SessionData[i].count = 4
    /\ SessionData[1].min_reading < SessionData[1].max_reading

\* a weekly session: the bucket of the first week holds the 72 readings of
\* Friday to Sunday and starts on the Monday before them
C17_WitnessWeekly ==
    /\ GotAllPages
    /\ request.aggregation = "weekly"
    /\ Len(SessionData) = 2
    /\ SessionData[1].count = 72
    /\ SessionData[1].timestamp = [day |-> 0, hour |-> 0, minute |-> 0]
    /\ SessionData[2].timestamp = [day |-> 7, hour |-> 0, minute |-> 0]

\* a daily session with a bucket of each measurement type on the same day
C17_WitnessDaily ==
    /\ GotAllPages
    /\ request.aggregation = "daily"
    /\ \E i \in 1..(Len(SessionData) - 1) :
        /\ SessionData[i].timestamp = SessionData[i + 1].timestamp
        /\ SessionData[i].measurement_type = "active"
        /\ SessionData[i].count = 96
        /\ SessionData[i + 1].measurement_type = "reactive"

\* an hourly session of two pages: 101 buckets, the last one on page 2
C17_WitnessPages ==
    /\ GotAllPages
    /\ request.aggregation = "hourly"
    /\ response.pages[1].pagination.total_pages = 2
    /\ Len(response.pages[1].data) = 100
    /\ Len(response.pages[2].data) = 1

\* a raw session of two pages over a table where the 100th and the 101st
\* selected rows have the same timestamp and measurement type
C16_WitnessTie ==
    /\ GotAllPages
    /\ request.aggregation = "raw"
    /\ response.pages[1].pagination.total_pages = 2
    /\ \E x, y \in Matching(store, request) :
        /\ x # y /\ x.timestamp = y.timestamp
        /\ x.measurement_type = y.measurement_type
        /\ Cardinality({r \in Matching(store, request) :
                            r.timestamp < x.timestamp}) = 99

\* a raw session over rows with distinct timestamps: two pages, and a third
\* request, past the end, that gets no item
C16_WitnessRaw ==
    /\ GotAllPages
    /\ request.aggregation = "raw"
    /\ response.pages[1].pagination.total_pages = 2
    /\ Len(response.pages) = 3
    /\ response.pages[3].data = <<>>
    /\ response.pages[3].pagination.has_prev
    /\ \A x, y \in Matching(store, request) : x.timestamp = y.timestamp => x = y

\* ------------------------------------------------------------------------
\* Properties of the pure functions of the backend
\* ------------------------------------------------------------------------
\* the (hour, is_weekend) combinations that get_tariff_for_hour puts in a class
TariffClass(t) ==
    {c \in (0..23) \X BOOLEAN : get_tariff_for_hour(c[1], c[2]).tariff = t}

\* C13: for every hour of the day and both day types get_tariff_for_hour
\* returns one class, "high" exactly on a weekday hour from 7 to 19 and "low"
\* otherwise, with the configured rate of that class; the two classes split
\* the 48 combinations, 13 of them peak and 35 off-peak.
C13_TariffPartition ==
    /\ response.op = "tariff" =>
        LET peak == ~request.is_weekend /\ 7 <= request.hour /\ request.hour < 20
        IN /\ response.tariff.tariff \in {"high", "low"}
           /\ response.tariff.tariff = "high" <=> peak
           /\ response.tariff.tariff = "low" <=> ~peak
           /\ peak => response.tariff.rate = SWISS_ENERGY_CONFIG.high_tariff.rate
           /\ ~peak => response.tariff.rate = SWISS_ENERGY_CONFIG.low_tariff.rate
    /\ TariffClass("high") \cap TariffClass("low") = {}
    /\ TariffClass("high") \cup TariffClass("low") = (0..23) \X BOOLEAN
    /\ Cardinality(TariffClass("high")) = 13
    /\ Cardinality(TariffClass("low")) = 35

\* the last peak hour of a weekday is classified
C13_Witness ==
    /\ response.op = "tariff"
    /\ request.hour = 19 /\ ~request.is_weekend
    /\ response.tariff.tariff = "high"

\* the first off-peak hour of a weekday evening is classified
C13_WitnessEvening ==
    /\ response.op = "tariff"
    /\ request.hour = 20 /\ ~request.is_weekend
    /\ response.tariff.tariff = "low"

\* a weekend hour inside the weekday peak window is classified
C13_WitnessWeekend ==
    /\ response.op = "tariff"
    /\ request.hour = 10 /\ request.is_weekend
    /\ response.tariff.rate = 22

\* C15: the pagination metadata of page p of size n over c rows: total_pages
\* is the least number of pages of size n that hold c rows, and 1 when there
\* is no row; has_next exactly when p * n < c; has_prev exactly when p > 1.
\* 8640 rows in pages of 10000 are 1 page without a next page; page 2 of
\* 25000 rows in pages of 10000 has a next and a previous page.
C15_PaginationMetadata ==
    response.op = "pagination" =>
        LET m == response.pagination
            p == request.page
            n == request.per_page
            c == request.total_count
        IN /\ m.total_pages >= 1
           /\ m.total_pages * n >= c
           /\ m.total_pages > 1 => (m.total_pages - 1) * n < c
           /\ m.has_next <=> p * n < c
           /\ m.has_prev <=> p > 1
           /\ (c = 8640 /\ n = 10000) => (m.total_pages = 1 /\ ~m.has_next)
           /\ (c = 25000 /\ n = 10000 /\ p = 2) =>
                (m.has_next /\ m.has_prev /\ m.total_pages = 3)
           /\ m.page = p /\ m.per_page = n /\ m.total_count = c

\* page 2 of 25000 rows in pages of 10000
C15_Witness ==
    /\ response.op = "pagination"
    /\ request.total_count = 25000 /\ request.per_page = 10000 /\ request.page = 2
    /\ response.pagination.has_next /\ response.pagination.has_prev

\* 8640 rows in one page of 10000
C15_WitnessOnePage ==
    /\ response.op = "pagination"
    /\ request.total_count = 8640 /\ request.per_page = 10000 /\ request.page = 1
    /\ response.pagination.total_pages = 1 /\ ~response.pagination.has_next

\* no row at all: one page
C15_WitnessEmpty ==
    /\ response.op = "pagination"
    /\ request.total_count = 0
    /\ response.pagination.total_pages = 1 /\ ~response.pagination.has_next

====
